---- MODULE Spec2Model ----
(***************************************************************************)
(* Model of the Tuppu agent: the chunk-level indexer (indexer.ts), the     *)
(* docs table with its unique index (database.ts), the lazily initialised  *)
(* local models (models.ts), and the two places that start an indexing     *)
(* run (the app.listen callback of index.ts and POST /reindex of           *)
(* server.ts); further POST /ask with answer and the evidence selection   *)
(* (server.ts, retrieval.ts), generateWithLocalLLM with its timer          *)
(* (models.ts), the schema migration of initDatabase (database.ts) and     *)
(* chunk (utils.ts).                                                       *)
(*                                                                         *)
(* JavaScript runs one callback at a time, so every action below is the    *)
(* code between two awaits of one async function.                          *)
(***************************************************************************)
EXTENDS Integers, Sequences, FiniteSets, Bags, TLC

VARIABLES
    dbDocs,       \* table docs, the rows in rowid order
    dbInit,       \* table docs as initDatabase left it when the server started
    pipelines,    \* per model kind, the pipeline(...) promises constructed so far
    promise,      \* embedderPromise / summarizerPromise: index in pipelines, 0 = null
    run,          \* per indexAll invocation: state of its promise, docs, error
    task,         \* per invocation, per document: the limit(async () => ...) task
    embedLog,     \* per invocation: bag of (url, i) for which embed was called
    insLog,       \* per invocation: bag of (url, i) for which ins.run was called
    resp,         \* per invocation: HTTP status sent by POST /reindex, 0 = none
    crashed,      \* the process was ended by an unhandled rejection
    caller,       \* direct callers of embed / summarize
    fnIn,         \* arguments of a function applied on its own
    fnOut,        \* what that function returned or threw, <<>> before it ran
    dbOld,        \* table docs_old, the rows in rowid order
    schema,       \* which tables and indexes the database file has
    initPc,       \* position of initDatabase
    ask           \* per POST /ask request: position and locals of the handler

\* the variables of initDatabase, of POST /ask and of the functions applied alone
restVars == <<fnIn, fnOut, dbOld, schema, initPc, ask>>

vars == <<dbDocs, dbInit, pipelines, promise, run, task, embedLog, insLog, resp, crashed, caller, restVars>>

-----------------------------------------------------------------------------
(* Bounds of the model. *)

MaxRuns == 2          \* indexAll invocations (run 1 is the startup indexing)
MaxWide == 4          \* documents of the wide feed
MaxCallers == 4       \* direct calls of embed / summarize
MaxAsks == 2          \* POST /ask requests

(* Program constants. *)

ChunkSize == 900      \* chunk(text, size = 900, ...)
ChunkOverlap == 180   \* chunk(text, ..., overlap = 180)
EmbedBudget == 8000   \* text.slice(0, 8000) in embed

Runs == 1..MaxRuns
Startup == 1
Callers == 1..MaxCallers
Asks == 1..MaxAsks
Kinds == {"embedder", "summarizer"}

Min(a, b) == IF a <= b THEN a ELSE b
Max(a, b) == IF a >= b THEN a ELSE b

-----------------------------------------------------------------------------
(* Strings.  A text is the window [lo, hi) of a character stream src whose  *)
(* characters are pairwise distinct, so two windows are the same string    *)
(* exactly when they are the same record; the empty string is canonical.   *)

EmptyStr == [src |-> "", lo |-> 0, hi |-> 0]
Text(src, len) == IF len = 0 THEN EmptyStr ELSE [src |-> src, lo |-> 0, hi |-> len]
StrLen(t) == t.hi - t.lo

\* String.prototype.slice(a, b) for 0 <= a, 0 <= b
Slice(t, a, b) ==
    LET s == Min(a, StrLen(t))
        e == Min(b, StrLen(t))
    IN  IF e <= s THEN EmptyStr ELSE [src |-> t.src, lo |-> t.lo + s, hi |-> t.lo + e]

\* titles are short literal strings
TitleLen(title) == 2

RECURSIVE ChunkFrom(_, _, _, _)
ChunkFrom(text, i, size, overlap) ==
    IF i < StrLen(text)
    THEN <<Slice(text, i, i + size)>> \o ChunkFrom(text, i + Max(1, size - overlap), size, overlap)
    ELSE <<>>

\* the windows do not overlap
chunkDisjoint(text, size, overlap) ==
    IF StrLen(text) = 0 THEN <<>> ELSE ChunkFrom(text, 0, size, 0)

\* utils.ts chunk
chunk(text, size, overlap) ==
    IF StrLen(text) = 0 THEN <<>> ELSE ChunkFrom(text, 0, size, overlap)

-----------------------------------------------------------------------------
(* The embedding of a text and its stored form. *)

\* `${d.title}\n\n${parts[i]}`
EmbedInput(title, part) == [title |-> title, body |-> part]

\* embedder(text.slice(0, 8000), ...): a deterministic function of the truncated input
Embedding(input) ==
    [of |-> [title |-> input.title,
             body  |-> Slice(input.body, 0, EmbedBudget - (TitleLen(input.title) + 2))]]

\* utils.ts arrToBuf: the Float32Array bytes of the vector
arrToBuf(vec) == [f32 |-> vec]

-----------------------------------------------------------------------------
(* Table docs.  A write statement yields the table after it and the error *)
(* it raised.                                                              *)

Row(url, title, i, content, vector) ==
    [url |-> url, title |-> title, chunk_index |-> i, content |-> content, vector |-> vector]

\* SELECT 1 FROM docs WHERE url=? AND chunk_index=?
Exists(db, url, i) == \E k \in 1..Len(db) : db[k].url = url /\ db[k].chunk_index = i

\* a plain INSERT into a table that has no unique index on (url, chunk_index)
InsertNoIndex(db, row) == [db |-> Append(db, row), err |-> "none"]

\* INSERT OR REPLACE: the conflicting row is deleted and the new one appended
InsertOrReplace(db, row) ==
    [db  |-> Append(SelectSeq(db, LAMBDA r : ~(r.url = row.url /\ r.chunk_index = row.chunk_index)), row),
     err |-> "none"]

\* INSERT OR IGNORE under the unique index idx_docs_url_chunk (database.ts)
InsertOrIgnore(db, row) ==
    [db  |-> IF Exists(db, row.url, row.chunk_index) THEN db ELSE Append(db, row),
     err |-> "none"]

\* `if (exists) break;`: the loop ends at the first chunk that is stored
NextAbsentBreak(db, url, n, i) == IF i < n /\ Exists(db, url, i) THEN n ELSE i

\* the for loop of indexAll from index i up to the next chunk that is not stored
RECURSIVE NextAbsent(_, _, _, _)
NextAbsent(db, url, n, i) ==
    IF i < n /\ Exists(db, url, i) THEN NextAbsent(db, url, n, i + 1) ELSE i

-----------------------------------------------------------------------------
(* Lazy initialisation of the models (models.ts). *)

\* if (!embedderPromise): a second pipeline is built also while the first is pending
NeedsInitUncached(k) == promise[k] = 0 \/ pipelines[k][promise[k]] = "pending"

\* if (!embedderPromise) / if (!summarizerPromise)
NeedsInit(k) == promise[k] = 0

\* embedderPromise = pipeline(...): the state of the constructed promises after the getter
PipelinesAfterGet(k) ==
    IF NeedsInit(k) THEN [pipelines EXCEPT ![k] = Append(@, "pending")] ELSE pipelines

\* the module variable after getEmbedder / getSummarizer
PromiseAfterGet(k) ==
    IF NeedsInit(k) THEN [promise EXCEPT ![k] = Len(pipelines[k]) + 1] ELSE promise

\* return embedderPromise
Returned(k) == PromiseAfterGet(k)[k]

\* the pipeline(...) promise settles: the model loaded, or loading failed
PipelineSettle(k, p, outcome) ==
    /\ ~crashed
    /\ p \in 1..Len(pipelines[k])
    /\ pipelines[k][p] = "pending"
    /\ pipelines' = [pipelines EXCEPT ![k][p] = outcome]
    /\ UNCHANGED <<dbDocs, dbInit, promise, run, task, embedLog, insLog, resp, crashed, caller, restVars>>

-----------------------------------------------------------------------------
(* A direct call of embed(text) or summarize(text). *)

IdleCaller == [st |-> "idle", kind |-> "embedder", p |-> 0, joined |-> "none", saw |-> "none"]

\* embed / summarize up to `await getEmbedder()` / `await getSummarizer()`
Call(c, k) ==
    /\ ~crashed
    /\ caller[c].st = "idle"
    /\ pipelines' = PipelinesAfterGet(k)
    /\ promise' = PromiseAfterGet(k)
    /\ caller' = [caller EXCEPT ![c] = [st |-> "init", kind |-> k, p |-> Returned(k),
                                        joined |-> IF promise[k] = 0 THEN "first"
                                                   ELSE pipelines[k][promise[k]],
                                        saw |-> "none"]]
    /\ UNCHANGED <<dbDocs, dbInit, run, task, embedLog, insLog, resp, crashed, restVars>>

\* the awaited getter promise has settled: the call throws, or starts the inference
CallInitDone(c) ==
    /\ ~crashed
    /\ caller[c].st = "init"
    /\ pipelines[caller[c].kind][caller[c].p] # "pending"
    /\ LET o == pipelines[caller[c].kind][caller[c].p]
       IN  caller' = [caller EXCEPT ![c].saw = o,
                                    ![c].st = IF o = "rejected" THEN "failed" ELSE "infer"]
    /\ UNCHANGED <<dbDocs, dbInit, pipelines, promise, run, task, embedLog, insLog, resp, crashed, restVars>>

\* `await embedder(...)` / `await summarizer(...)` returns or throws
CallInferDone(c, ok) ==
    /\ ~crashed
    /\ caller[c].st = "infer"
    /\ caller' = [caller EXCEPT ![c].st = IF ok THEN "ok" ELSE "failed"]
    /\ UNCHANGED <<dbDocs, dbInit, pipelines, promise, run, task, embedLog, insLog, resp, crashed, restVars>>

-----------------------------------------------------------------------------
(* indexAll (indexer.ts). *)

IdleRun == [pc |-> "idle", docs |-> <<>>, err |-> "none"]
QueuedTask == [st |-> "queued", i |-> 0, p |-> 0, err |-> "none"]

Post(url, title, src, len) == [url |-> url, title |-> title, content |-> Text(src, len)]

Parts(r, d) == chunk(run[r].docs[d].content, ChunkSize, ChunkOverlap)

\* p-limit's activeCount: tasks that have started and not settled
Active(r) == Cardinality({d \in 1..Len(task[r]) : task[r][d].st \in {"init", "infer"}})

\* const limit = pLimit(3)
Concurrency == 3

\* Promise.all(docs.map(d => (async () => ...)())): no limit at all
MayStartUnlimited(r) == TRUE

\* p-limit: a queued function is run when activeCount < concurrency
MayStart(r) == Active(r) < Concurrency

\* the `await indexAll()` of the caller continues: POST /reindex answers; the
\* app.listen callback has nothing after it
Respond(r, pc) ==
    IF r = Startup \/ resp[r] # 0 THEN resp
    ELSE IF pc = "resolved" THEN [resp EXCEPT ![r] = 200]
    ELSE IF pc = "rejected" THEN [resp EXCEPT ![r] = 500]
    ELSE resp

\* Promise.all: rejected by the first task that throws, resolved when all returned
AllOutcome(r, ts, e) ==
    IF run[r].pc # "indexing" THEN run[r]
    ELSE IF e # "none" THEN [run[r] EXCEPT !.pc = "rejected", !.err = e]
    ELSE IF \A d \in 1..Len(ts) : ts[d].st = "done" THEN [run[r] EXCEPT !.pc = "resolved"]
    ELSE run[r]

\* the effect of a task step on the run: ts are the run's tasks after the step,
\* e the error thrown by the step ("none": it did not throw)
Outcome(r, ts, e) ==
    /\ task' = [task EXCEPT ![r] = ts]
    /\ run' = [run EXCEPT ![r] = AllOutcome(r, ts, e)]
    /\ resp' = Respond(r, AllOutcome(r, ts, e).pc)

\* the for loop of task d of run r from index i, up to its next await or its end
Loop(r, d, i, db) ==
    LET doc == run[r].docs[d]
        n   == Len(Parts(r, d))
        j   == NextAbsent(db, doc.url, n, i)
    IN  IF j < n
        THEN \* const vec = await embed(...): runs embed up to `await getEmbedder()`
             /\ pipelines' = PipelinesAfterGet("embedder")
             /\ promise' = PromiseAfterGet("embedder")
             /\ embedLog' = [embedLog EXCEPT ![r] = @ (+) SetToBag({<<doc.url, j>>})]
             /\ Outcome(r, [task[r] EXCEPT ![d] = [st |-> "init", i |-> j,
                                                   p |-> Returned("embedder"), err |-> "none"]], "none")
        ELSE \* parts.length === 0, or the loop ended
             /\ UNCHANGED <<pipelines, promise, embedLog>>
             /\ Outcome(r, [task[r] EXCEPT ![d] = [st |-> "done", i |-> n, p |-> 0, err |-> "none"]], "none")

\* the task throws error e
Throw(r, d, e) ==
    Outcome(r, [task[r] EXCEPT ![d].st = "failed", ![d].err = e], e)

\* app.listen(PORT, async () => { await indexAll(); })
StartupIndex ==
    /\ ~crashed
    /\ run[Startup].pc = "idle"
    /\ run' = [run EXCEPT ![Startup].pc = "fetching"]
    /\ UNCHANGED <<dbDocs, dbInit, pipelines, promise, task, embedLog, insLog, resp, crashed, caller, restVars>>

\* app.post('/reindex', ...): a request arrives at the listening server
Reindex(r) ==
    /\ ~crashed
    /\ r # Startup
    /\ run[Startup].pc # "idle"
    /\ run[r].pc = "idle"
    /\ run' = [run EXCEPT ![r].pc = "fetching"]
    /\ UNCHANGED <<dbDocs, dbInit, pipelines, promise, task, embedLog, insLog, resp, crashed, caller, restVars>>

\* const docs = await fetchAllPosts() returns; every document is handed to limit
FetchOk(r, feed) ==
    /\ ~crashed
    /\ run[r].pc = "fetching"
    /\ LET ts == [d \in 1..Len(feed) |-> QueuedTask]
           rn == [run[r] EXCEPT !.docs = feed, !.pc = IF feed = <<>> THEN "resolved" ELSE "indexing"]
       IN  /\ task' = [task EXCEPT ![r] = ts]
           /\ run' = [run EXCEPT ![r] = rn]
           /\ resp' = Respond(r, rn.pc)
    /\ UNCHANGED <<dbDocs, dbInit, pipelines, promise, embedLog, insLog, crashed, caller, restVars>>

\* a failed fetch that goes on with a stale copy of the documents
FetchFailStale(r) ==
    /\ ~crashed
    /\ run[r].pc = "fetching"
    /\ \E q \in Runs :
        /\ run[q].docs # <<>>
        /\ task' = [task EXCEPT ![r] = [d \in 1..Len(run[q].docs) |-> QueuedTask]]
        /\ run' = [run EXCEPT ![r] = [pc |-> "rejected", docs |-> run[q].docs, err |-> "fetch"]]
    /\ resp' = Respond(r, "rejected")
    /\ UNCHANGED <<dbDocs, dbInit, pipelines, promise, embedLog, insLog, crashed, caller, restVars>>

\* const docs = await fetchAllPosts() throws: indexAll rejects at once
FetchFail(r) ==
    /\ ~crashed
    /\ run[r].pc = "fetching"
    /\ run' = [run EXCEPT ![r].pc = "rejected", ![r].err = "fetch"]
    /\ resp' = Respond(r, "rejected")
    /\ UNCHANGED <<dbDocs, dbInit, pipelines, promise, task, embedLog, insLog, crashed, caller, restVars>>

\* p-limit starts the next queued task (first in, first out)
TaskStart(r, d) ==
    /\ ~crashed
    /\ d \in 1..Len(task[r])
    /\ task[r][d].st = "queued"
    /\ \A e \in 1..(d - 1) : task[r][e].st # "queued"
    /\ MayStart(r)
    /\ Loop(r, d, 0, dbDocs)
    /\ UNCHANGED <<dbDocs, dbInit, insLog, crashed, caller, restVars>>

\* embed: `await getEmbedder()` has settled; it throws when the model did not load
TaskInitDone(r, d) ==
    /\ ~crashed
    /\ d \in 1..Len(task[r])
    /\ task[r][d].st = "init"
    /\ pipelines["embedder"][task[r][d].p] # "pending"
    /\ IF pipelines["embedder"][task[r][d].p] = "rejected"
       THEN Throw(r, d, "model")
       ELSE Outcome(r, [task[r] EXCEPT ![d].st = "infer"], "none")
    /\ UNCHANGED <<dbDocs, dbInit, pipelines, promise, embedLog, insLog, crashed, caller, restVars>>

\* the failed chunk is skipped and the loop goes on with the next one
TaskEmbedSkip(r, d) ==
    /\ ~crashed
    /\ d \in 1..Len(task[r])
    /\ task[r][d].st = "infer"
    /\ Loop(r, d, task[r][d].i + 1, dbDocs)
    /\ UNCHANGED <<dbDocs, dbInit, insLog, crashed, caller, restVars>>

\* the failed embedding is tried again
TaskEmbedRetry(r, d) ==
    /\ ~crashed
    /\ d \in 1..Len(task[r])
    /\ task[r][d].st = "infer"
    /\ Loop(r, d, task[r][d].i, dbDocs)
    /\ UNCHANGED <<dbDocs, dbInit, insLog, crashed, caller, restVars>>

\* embed: `await embedder(...)` throws for this input, so the task throws
TaskEmbedFail(r, d) ==
    /\ ~crashed
    /\ d \in 1..Len(task[r])
    /\ task[r][d].st = "infer"
    /\ Throw(r, d, "embed")
    /\ UNCHANGED <<dbDocs, dbInit, pipelines, promise, embedLog, insLog, crashed, caller, restVars>>

\* ins.run(d.url, d.title, i, parts[i], arrToBuf(vec))
InsRun(db, row) == InsertOrIgnore(db, row)

\* embed returns vec; ins.run; the loop goes on to the next await or ends.
\* storeOk = FALSE: ins.run throws (the store is unavailable)
TaskEmbedded(r, d, storeOk) ==
    /\ ~crashed
    /\ d \in 1..Len(task[r])
    /\ task[r][d].st = "infer"
    /\ LET doc == run[r].docs[d]
           i   == task[r][d].i
           vec == Embedding(EmbedInput(doc.title, Parts(r, d)[i + 1]))
           row == Row(doc.url, doc.title, i, Parts(r, d)[i + 1], arrToBuf(vec))
           res == InsRun(dbDocs, row)
       IN  /\ insLog' = [insLog EXCEPT ![r] = @ (+) SetToBag({<<doc.url, i>>})]
           /\ IF storeOk /\ res.err = "none"
              THEN /\ dbDocs' = res.db
                   /\ Loop(r, d, i + 1, res.db)
              ELSE IF storeOk
              THEN /\ dbDocs' = res.db
                   /\ Throw(r, d, res.err)
                   /\ UNCHANGED <<pipelines, promise, embedLog>>
              ELSE /\ dbDocs' = dbDocs
                   /\ Throw(r, d, "store")
                   /\ UNCHANGED <<pipelines, promise, embedLog>>
    /\ UNCHANGED <<dbInit, crashed, caller, restVars>>

\* the rejected promise of the app.listen callback has no handler: Node ends the
\* process (the default since Node 15) or only warns
UnhandledRejection ==
    /\ ~crashed
    /\ run[Startup].pc = "rejected"
    /\ crashed' = TRUE
    /\ UNCHANGED <<dbDocs, dbInit, pipelines, promise, run, task, embedLog, insLog, resp, caller, restVars>>

-----------------------------------------------------------------------------
(* Inputs: what fetchAllPosts returns (deduplicated by url) and what the   *)
(* table holds when the server starts.                                     *)

\* u3 has no text; u1 has two chunks
FeedA == <<Post("u3", "T3", "", 0), Post("u1", "T1", "a", 1000)>>
\* u1 was retitled and its text shrank to one chunk; u2 is new
FeedB == <<Post("u1", "T2", "a", 500), Post("u2", "T1", "b", 500)>>
Feeds == {<<>>, FeedA, FeedB}

WideUrls == <<"w1", "w2", "w3", "w4", "w5", "w6">>
WideFeed == [k \in 1..MaxWide |-> Post(WideUrls[k], "T1", WideUrls[k], 500)]

\* a row written by an earlier life of the process, from an older version of u1
OldRow ==
    LET part == Slice(Text("z", 400), 0, ChunkSize)
    IN  Row("u1", "T0", 0, part, arrToBuf(Embedding(EmbedInput("T0", part))))
InitStores == {<<>>, <<OldRow>>}

\* the database file once initDatabase has returned
CurrentSchema == [docs |-> "new", docsOld |-> FALSE, idxUrl |-> TRUE, idxUrlChunk |-> TRUE]

\* no request was received yet
IdleAsk ==
    [pc |-> "idle", body |-> <<>>, q |-> <<>>, p |-> 0, top |-> <<>>, path |-> "none",
     timer |-> "none", deadline |-> FALSE, r |-> <<>>, gen |-> <<>>, out |-> <<>>,
     calls |-> [embed |-> 0, scan |-> 0, gen |-> 0, sum |-> 0], res |-> <<>>]

\* initDatabase has returned, no request was received, no function is applied alone
InitRest ==
    /\ fnIn = <<>>
    /\ fnOut = <<>>
    /\ dbOld = <<>>
    /\ schema = CurrentSchema
    /\ initPc = "done"
    /\ ask = [a \in Asks |-> IdleAsk]

\* no indexAll, embed or summarize was called yet
InitIndexer ==
    /\ pipelines = [k \in Kinds |-> <<>>]
    /\ promise = [k \in Kinds |-> 0]
    /\ run = [r \in Runs |-> IdleRun]
    /\ task = [r \in Runs |-> <<>>]
    /\ embedLog = [r \in Runs |-> EmptyBag]
    /\ insLog = [r \in Runs |-> EmptyBag]
    /\ resp = [r \in Runs |-> 0]
    /\ crashed = FALSE
    /\ caller = [c \in Callers |-> IdleCaller]

InitProcess ==
    /\ InitRest
    /\ InitIndexer

Init ==
    /\ dbDocs \in InitStores
    /\ dbInit = dbDocs
    /\ InitProcess

\* the pipeline('feature-extraction', ...) promise settles
EmbedderSettle ==
    \E o \in {"fulfilled", "rejected"} :
        \E p \in 1..Len(pipelines["embedder"]) : PipelineSettle("embedder", p, o)

\* the steps of one indexAll invocation once it was called
RunStep(r, feeds) ==
    \/ \E feed \in feeds : FetchOk(r, feed)
    \/ FetchFail(r)
    \/ \E d \in 1..Len(task[r]) : TaskStart(r, d)
    \/ \E d \in 1..Len(task[r]) : TaskInitDone(r, d)
    \/ \E d \in 1..Len(task[r]) : TaskEmbedFail(r, d)
    \/ \E d \in 1..Len(task[r]), storeOk \in BOOLEAN : TaskEmbedded(r, d, storeOk)

Next ==
    \/ StartupIndex
    \/ UnhandledRejection
    \/ EmbedderSettle
    \/ \E r \in Runs : Reindex(r)
    \/ \E r \in Runs : RunStep(r, Feeds)

\* the indexer over small feeds whose documents change between fetches
Spec == Init /\ [][Next]_vars

InitEmpty ==
    /\ dbDocs = <<>>
    /\ dbInit = dbDocs
    /\ InitProcess

NextLimit ==
    \/ StartupIndex
    \/ UnhandledRejection
    \/ EmbedderSettle
    \/ RunStep(Startup, {WideFeed})

\* one indexing run over a feed with more documents than the concurrency limit
SpecLimit == InitEmpty /\ [][NextLimit]_vars

NextLazy ==
    \/ \E k \in Kinds, o \in {"fulfilled", "rejected"} :
        \E p \in 1..Len(pipelines[k]) : PipelineSettle(k, p, o)
    \/ \E c \in Callers, k \in Kinds : Call(c, k)
    \/ \E c \in Callers : CallInitDone(c)
    \/ \E c \in Callers, ok \in BOOLEAN : CallInferDone(c, ok)

\* concurrent calls of embed and summarize
SpecLazy == InitEmpty /\ [][NextLazy]_vars

-----------------------------------------------------------------------------
(* utils.ts chunk applied alone to texts, sizes and overlaps.               *)

MaxText == 10         \* length of the texts chunked with small windows
MaxSize == 4          \* the small windows

\* lengths around the multiples of the default step 900 - 180
DefaultLens == {0, 1, 720, 721, 900, 901, 1440, 1441, 1500, 2000}

ChunkInputs ==
    [text : {Text("t", n) : n \in 0..MaxText}, size : 1..MaxSize, overlap : -1..(MaxSize + 1)]
        \cup [text : {Text("t", n) : n \in DefaultLens}, size : {ChunkSize}, overlap : {ChunkOverlap}]

InitFn(inputs) ==
    /\ fnIn \in inputs
    /\ fnOut = <<>>
    /\ dbOld = <<>>
    /\ schema = CurrentSchema
    /\ initPc = "done"
    /\ ask = [a \in Asks |-> IdleAsk]
    /\ dbDocs = <<>>
    /\ dbInit = <<>>
    /\ InitIndexer

\* the call chunk(text, size, overlap) returns
ApplyChunk ==
    /\ fnOut = <<>>
    /\ fnOut' = <<chunk(fnIn.text, fnIn.size, fnIn.overlap)>>
    /\ UNCHANGED <<dbDocs, dbInit, pipelines, promise, run, task, embedLog, insLog, resp, crashed, caller>>
    /\ UNCHANGED <<fnIn, dbOld, schema, initPc, ask>>

NextChunk == ApplyChunk

SpecChunk == InitFn(ChunkInputs) /\ [][NextChunk]_vars

-----------------------------------------------------------------------------
(* utils.ts chunk, one iteration of its loop at a time. *)

\* the smallest and greatest window sizes and overlaps, and the defaults
ChunkLoopInputs ==
    [text : {Text("t", n) : n \in 0..MaxText}, size : 0..MaxSize, overlap : -1..(MaxSize + 1)]
        \cup [text : {Text("t", n) : n \in {1500, 2000}}, size : {ChunkSize}, overlap : {ChunkOverlap}]

\* i += size - overlap
StepRaw(size, overlap) == size - overlap

\* line 59: Math.max(1, size - overlap)
Step(size, overlap) == Max(1, size - overlap)

\* what the loop of chunk leaves alone
ChunkFrame ==
    /\ UNCHANGED <<dbDocs, dbInit, pipelines, promise, run, task, embedLog, insLog, resp, crashed, caller>>
    /\ UNCHANGED <<fnIn, dbOld, schema, initPc, ask>>

\* lines 54-56: if (!text) return []; const out = []; let i = 0
ChunkCall ==
    /\ fnOut = <<>>
    /\ fnOut' = <<[pc |-> IF StrLen(fnIn.text) = 0 THEN "returned" ELSE "loop", i |-> 0, out |-> <<>>]>>
    /\ ChunkFrame

\* lines 57-60: one iteration of while (i < text.length)
ChunkIter ==
    /\ fnOut # <<>>
    /\ fnOut[1].pc = "loop"
    /\ fnOut[1].i < StrLen(fnIn.text)
    /\ fnOut' = <<[fnOut[1] EXCEPT !.out = Append(@, Slice(fnIn.text, fnOut[1].i, fnOut[1].i + fnIn.size)),
                                   !.i = @ + Step(fnIn.size, fnIn.overlap)]>>
    /\ ChunkFrame

\* line 61: the loop is left, return out
ChunkReturn ==
    /\ fnOut # <<>>
    /\ fnOut[1].pc = "loop"
    /\ fnOut[1].i >= StrLen(fnIn.text)
    /\ fnOut' = <<[fnOut[1] EXCEPT !.pc = "returned"]>>
    /\ ChunkFrame

NextChunkLoop ==
    \/ ChunkCall
    \/ ChunkIter
    \/ ChunkReturn

\* the call runs on: a step that can be taken is taken
SpecChunkLoop == InitFn(ChunkLoopInputs) /\ [][NextChunkLoop]_vars /\ WF_vars(NextChunkLoop)

-----------------------------------------------------------------------------
(* Short strings whose characters matter (questions, titles, the fields of *)
(* a completion) are sequences of one-character strings.                   *)

WhiteSpace == {" ", "\n"}

RECURSIVE TrimStart(_)
TrimStart(s) == IF s # <<>> /\ Head(s) \in WhiteSpace THEN TrimStart(Tail(s)) ELSE s

RECURSIVE TrimEnd(_)
TrimEnd(s) ==
    IF s # <<>> /\ s[Len(s)] \in WhiteSpace THEN TrimEnd(SubSeq(s, 1, Len(s) - 1)) ELSE s

\* String.prototype.trim
Trim(s) == TrimEnd(TrimStart(s))

(* JavaScript values of a parsed JSON document. *)

Undefined == [t |-> "undefined"]
Null == [t |-> "null"]
Str(s) == [t |-> "string", v |-> s]
Obj(fields) == [t |-> "object", v |-> fields]
Arr(items) == [t |-> "array", v |-> items]

\* x?.name for an object with the fields content, text, message or choices
Opt(x, name) ==
    IF x.t # "object" \/ name \notin DOMAIN x.v THEN Undefined ELSE x.v[name]

\* x?.[0]
OptFirst(x) == IF x.t # "array" \/ x.v = <<>> THEN Undefined ELSE x.v[1]

\* x?.trim() for undefined, null or a string
OptTrim(x) == IF x.t = "string" THEN Str(Trim(x.v)) ELSE Undefined

\* a || b for strings, undefined and null: the empty string is falsy
OrElse(a, b) == IF a.t = "string" /\ a.v # <<>> THEN a ELSE b

-----------------------------------------------------------------------------
(* models.ts generateWithLocalLLM: what it makes of the server's response. *)

\* fromText || fromMessage
ExtractTextFirst(j) ==
    LET choice == OptFirst(Opt(j, "choices"))
        fromMessage == OptTrim(Opt(Opt(choice, "message"), "content"))
        fromText == OptTrim(Opt(choice, "text"))
    IN  OrElse(OrElse(fromText, fromMessage), Str(<<>>)).v

\* lines 97-100: the text extracted from the parsed completion j
Extract(j) ==
    LET choice == OptFirst(Opt(j, "choices"))
        fromMessage == OptTrim(Opt(Opt(choice, "message"), "content"))
        fromText == OptTrim(Opt(choice, "text"))
    IN  OrElse(OrElse(fromMessage, fromText), Str(<<>>)).v

Returns(text) == [kind |-> "text", text |-> text]
Throws(name) == [kind |-> "error", name |-> name]
\* new Error(`LLM HTTP ${r.status}: ${txt}`)
ThrowsHttp(status, txt) == [kind |-> "error", name |-> "http", status |-> status, body |-> txt]

\* lines 89-103 for a response r that arrived whole
Completion(r) ==
    IF ~r.ok
    THEN ThrowsHttp(r.status, IF r.readable THEN r.body.v ELSE <<>>)
    ELSE IF ~r.isJson
         THEN Throws("json")
         ELSE IF Extract(r.body) = <<>> THEN Throws("empty") ELSE Returns(Extract(r.body))

(* Responses of the server. *)

ContentStrings == {<<>>, <<" ">>, <<"A">>, <<" ", "A", " ", "A", "\n">>}
TextStrings == {<<>>, <<"\n", " ">>, <<"B">>, <<"B", " ">>}
Messages ==
    {Undefined, Null, Obj(<<>>)}
        \cup {Obj([content |-> c]) : c \in {Null} \cup {Str(x) : x \in ContentStrings}}
Choices ==
    {Obj([message |-> m]) : m \in Messages \ {Undefined}}
        \cup {Obj([text |-> Str(x)]) : x \in TextStrings}
        \cup {Obj([message |-> m, text |-> Str(x)]) : m \in Messages \ {Undefined}, x \in TextStrings}
        \cup {Obj(<<>>)}
OtherChoice == Obj([message |-> Obj([content |-> Str(<<"C">>)]), text |-> Str(<<"C">>)])
Completions ==
    {Obj(<<>>), Obj([choices |-> Arr(<<>>)])}
        \cup {Obj([choices |-> Arr(<<c>>)]) : c \in Choices}
        \cup {Obj([choices |-> Arr(<<c, OtherChoice>>)]) : c \in {Obj(<<>>), OtherChoice}}

OkResponse(j) == [ok |-> TRUE, status |-> 200, isJson |-> TRUE, body |-> j]
NotJsonResponse == [ok |-> TRUE, status |-> 200, isJson |-> FALSE, body |-> Str(<<"<">>)]
ErrorResponse(status, readable, txt) ==
    [ok |-> FALSE, status |-> status, readable |-> readable, body |-> Str(txt)]
Responses ==
    {OkResponse(j) : j \in Completions}
        \cup {NotJsonResponse}
        \cup {ErrorResponse(st, rd, b) : st \in {404, 429, 500, 503}, rd \in BOOLEAN, b \in {<<>>, <<"E">>}}

\* the code after the awaits of generateWithLocalLLM, for a response that arrived
ApplyCompletion ==
    /\ fnOut = <<>>
    /\ fnOut' = <<Completion(fnIn)>>
    /\ UNCHANGED <<dbDocs, dbInit, pipelines, promise, run, task, embedLog, insLog, resp, crashed, caller>>
    /\ UNCHANGED <<fnIn, dbOld, schema, initPc, ask>>

NextCompletion == ApplyCompletion

SpecCompletion == InitFn(Responses) /\ [][NextCompletion]_vars

-----------------------------------------------------------------------------
(* database.ts initDatabase, statement by statement, on a database file    *)
(* that has no docs table, a docs table of the old shape (no chunk_index   *)
(* column) or one of the current shape.                                    *)

MaxOld == 3           \* rows of the old table

\* the SQL value NULL in a url column (no url is spelled this way)
SqlNull == "NULL"

\* a row of the old shape
OldShapeRow(url, title, content, vector) ==
    [url |-> url, title |-> title, content |-> content, vector |-> vector]

OldShapeRows ==
    {OldShapeRow(u, "T1", c, arrToBuf(Embedding(EmbedInput("T1", c)))) :
        u \in {"a", "b", SqlNull}, c \in {Text("c", 3), Text("d", 3)}}

RECURSIVE SeqsUpTo(_, _)
SeqsUpTo(S, n) ==
    IF n = 0 THEN {<<>>}
    ELSE LET shorter == SeqsUpTo(S, n - 1)
         IN  shorter \cup {Append(q, x) : q \in shorter, x \in S}

CurrentRows ==
    {<<>>, <<Row("a", "T1", 0, Text("c", 3), arrToBuf(Embedding(EmbedInput("T1", Text("c", 3)))))>>}

\* the tables of the file tuppu.db when the process starts
DbFiles ==
    {[docs |-> "none", rows |-> <<>>]}
        \cup {[docs |-> "old", rows |-> q] : q \in SeqsUpTo(OldShapeRows, MaxOld)}
        \cup {[docs |-> "new", rows |-> q] : q \in CurrentRows}

InitMigrate ==
    /\ fnIn \in DbFiles
    /\ fnOut = <<>>
    /\ dbDocs = fnIn.rows
    /\ dbInit = <<>>
    /\ dbOld = <<>>
    /\ schema = [docs |-> fnIn.docs, docsOld |-> FALSE, idxUrl |-> fnIn.docs = "new",
                 idxUrlChunk |-> fnIn.docs = "new"]
    /\ initPc = "create"
    /\ ask = [a \in Asks |-> IdleAsk]
    /\ InitIndexer

\* what the statements of initDatabase leave alone
InitDatabaseFrame ==
    UNCHANGED <<dbInit, pipelines, promise, run, task, embedLog, insLog, resp, crashed, caller, fnIn, ask>>

\* a statement throws: initDatabase ends with that exception
InitThrows ==
    /\ initPc' = "threw"
    /\ fnOut' = <<"threw">>

\* tableExists
tableExists(name) == IF name = "docs" THEN schema.docs # "none" ELSE schema.docsOld

\* tableHasColumn('docs', 'chunk_index')
tableHasColumn == schema.docs = "new"

\* lines 28-39: CREATE TABLE docs when it does not exist
InitCreate ==
    /\ initPc = "create"
    /\ IF ~tableExists("docs")
       THEN schema' = [schema EXCEPT !.docs = "new"] /\ dbDocs' = <<>>
       ELSE UNCHANGED <<schema, dbDocs>>
    /\ initPc' = "check"
    /\ UNCHANGED <<dbOld, fnOut>>
    /\ InitDatabaseFrame

\* lines 42-43: ALTER TABLE docs RENAME TO docs_old when docs lacks chunk_index
InitRename ==
    /\ initPc = "check"
    /\ IF tableHasColumn
       THEN initPc' = "indexes" /\ UNCHANGED <<schema, dbDocs, dbOld, fnOut>>
       ELSE IF tableExists("docs_old")
            THEN InitThrows /\ UNCHANGED <<schema, dbDocs, dbOld>>
            ELSE /\ schema' = [schema EXCEPT !.docs = "none", !.docsOld = TRUE]
                 /\ dbOld' = dbDocs
                 /\ dbDocs' = <<>>
                 /\ initPc' = "renamed"
                 /\ UNCHANGED fnOut
    /\ InitDatabaseFrame

\* lines 44-53: CREATE TABLE docs in the current shape
InitCreateNew ==
    /\ initPc = "renamed"
    /\ schema' = [schema EXCEPT !.docs = "new"]
    /\ dbDocs' = <<>>
    /\ initPc' = "copy"
    /\ UNCHANGED <<dbOld, fnOut>>
    /\ InitDatabaseFrame

\* ins.run(r.url, r.title, 0, r.content, r.vector)
Migrated(r) == Row(r.url, r.title, 0, r.content, r.vector)

\* only the first old row is copied
CopyFirstRow(rows) == IF rows = <<>> THEN <<>> ELSE <<Migrated(rows[1])>>

\* lines 56-59: the rows the transaction inserts
CopyRows(rows) == [k \in 1..Len(rows) |-> Migrated(rows[k])]

\* lines 54-59: copy the old rows in one transaction; url is NOT NULL in docs
InitCopy ==
    /\ initPc = "copy"
    /\ IF \E k \in 1..Len(dbOld) : dbOld[k].url = SqlNull
       THEN InitThrows /\ UNCHANGED dbDocs
       ELSE dbDocs' = dbDocs \o CopyRows(dbOld) /\ initPc' = "drop" /\ UNCHANGED fnOut
    /\ UNCHANGED <<dbOld, schema>>
    /\ InitDatabaseFrame

\* line 60: DROP TABLE docs_old
InitDrop ==
    /\ initPc = "drop"
    /\ schema' = [schema EXCEPT !.docsOld = FALSE]
    /\ dbOld' = <<>>
    /\ initPc' = "indexes"
    /\ UNCHANGED <<dbDocs, fnOut>>
    /\ InitDatabaseFrame

\* some (url, chunk_index) occurs in two rows
HasDuplicatePair(db) ==
    \E j, k \in 1..Len(db) :
        j # k /\ db[j].url = db[k].url /\ db[j].chunk_index = db[k].chunk_index

\* lines 64-67: CREATE INDEX IF NOT EXISTS, CREATE UNIQUE INDEX IF NOT EXISTS
InitIndexes ==
    /\ initPc = "indexes"
    /\ IF ~schema.idxUrlChunk /\ HasDuplicatePair(dbDocs)
       THEN schema' = [schema EXCEPT !.idxUrl = TRUE] /\ InitThrows
       ELSE /\ schema' = [schema EXCEPT !.idxUrl = TRUE, !.idxUrlChunk = TRUE]
            /\ initPc' = "done"
            /\ fnOut' = <<"returned">>
    /\ UNCHANGED <<dbDocs, dbOld>>
    /\ InitDatabaseFrame

NextMigrate ==
    \/ InitCreate
    \/ InitRename
    \/ InitCreateNew
    \/ InitCopy
    \/ InitDrop
    \/ InitIndexes

\* initDatabase on the database files of DbFiles
SpecMigrate == InitMigrate /\ [][NextMigrate]_vars

\* the process stops between two statements of initDatabase (the statements are
\* atomic, the copy being one transaction); at the next start index.ts calls
\* initDatabase again on the same file
ProcessStops ==
    /\ initPc \in {"check", "renamed", "copy", "drop", "indexes"}
    /\ initPc' = "create"
    /\ crashed' = TRUE
    /\ UNCHANGED <<dbDocs, dbOld, schema, fnOut>>
    /\ UNCHANGED <<dbInit, pipelines, promise, run, task, embedLog, insLog, resp, caller, fnIn, ask>>

NextRestart ==
    \/ NextMigrate
    \/ ProcessStops

\* initDatabase on the database files of DbFiles, with process stops and restarts
SpecRestart == InitMigrate /\ [][NextRestart]_vars

-----------------------------------------------------------------------------
(* retrieval.ts: scoring and the selection of the evidence.  Similarities  *)
(* and scores are counted in hundredths; the vectors are integer vectors   *)
(* of length 25, for which the cosine is a whole number of hundredths.     *)

TitleBoost == 6       \* s += 0.06
BodyBoost == 3        \* s += 0.03
ScoreFloor == 28      \* x.score >= 0.28
GoodScore == 35       \* h.score >= 0.35
TopK == 10            \* searchVectors(qvec, question, 10)
TopHits == 3          \* strictHits.slice(0, 3)

\* String.prototype.toLowerCase, for the letters in use
LowerChar(c) == CASE c = "W" -> "w" [] c = "S" -> "s" [] OTHER -> c
ToLower(s) == [k \in 1..Len(s) |-> LowerChar(s[k])]

\* \w of a regular expression, for the characters in use
WordChars == {"W", "S", "w", "i", "n", "d", "y", "s", "a", "u", "p"}

\* String.prototype.includes
Includes(s, sub) == \E i \in 1..(Len(s) - Len(sub) + 1) : SubSeq(s, i, i + Len(sub) - 1) = sub

\* s.split(/\W+/), without the empty strings it yields at the ends
RECURSIVE SplitWords(_, _)
SplitWords(s, word) ==
    IF s = <<>> THEN (IF word = <<>> THEN <<>> ELSE <<word>>)
    ELSE IF Head(s) \in WordChars THEN SplitWords(Tail(s), Append(word, Head(s)))
    ELSE (IF word = <<>> THEN <<>> ELSE <<word>>) \o SplitWords(Tail(s), <<>>)

\* Array.from(new Set(xs)): the first occurrence of each element, in order
RECURSIVE Unique(_)
Unique(xs) ==
    IF xs = <<>> THEN <<>>
    ELSE LET front == Unique(SubSeq(xs, 1, Len(xs) - 1))
             last == xs[Len(xs)]
         IN  IF \E k \in 1..Len(front) : front[k] = last THEN front ELSE Append(front, last)

\* lines 341-342 and 365-367
Keywords(question) ==
    Unique(SelectSeq(SplitWords(ToLower(question), <<>>), LAMBDA x : Len(x) >= 4))

\* Math.sqrt, for squares
Sqrt(n) == CHOOSE r \in 0..n : r * r = n

RECURSIVE SumTo(_, _)
SumTo(f, n) == IF n = 0 THEN 0 ELSE f[n] + SumTo(f, n - 1)

\* utils.ts bufToArr
bufToArr(buf) == buf.f32

\* utils.ts cosSim, in hundredths
cosSim(a, b) ==
    LET n == Min(Len(a), Len(b))
        dot == SumTo([i \in 1..n |-> a[i] * b[i]], n)
        na == SumTo([i \in 1..n |-> a[i] * a[i]], n)
        nb == SumTo([i \in 1..n |-> b[i] * b[i]], n)
        denom == Sqrt(na) * Sqrt(nb)
    IN  IF n = 0 \/ denom = 0 THEN 0 ELSE (100 * dot) \div denom

\* the test that an empty keyword list passes
SomeInOrNone(keywords, text) ==
    keywords = <<>> \/ \E k \in 1..Len(keywords) : Includes(ToLower(text), keywords[k])

\* some keyword occurs in the lower-cased text
SomeIn(keywords, text) == \E k \in 1..Len(keywords) : Includes(ToLower(text), keywords[k])

\* lines 344-352: the row with its score
Scored(r, queryVec, keywords) ==
    [url |-> r.url, title |-> r.title, chunk_index |-> r.chunk_index, content |-> r.content,
     vector |-> r.vector,
     score |-> cosSim(queryVec, bufToArr(r.vector))
                 + (IF SomeIn(keywords, r.title) THEN TitleBoost ELSE 0)
                 + (IF SomeIn(keywords, r.content) THEN BodyBoost ELSE 0)]

\* x goes behind every element that does not score less
RECURSIVE InsertDesc(_, _)
InsertDesc(x, sorted) ==
    IF sorted = <<>> THEN <<x>>
    ELSE IF Head(sorted).score >= x.score THEN <<Head(sorted)>> \o InsertDesc(x, Tail(sorted))
    ELSE <<x>> \o sorted

\* scored.sort((a, b) => b.score - a.score): stable, descending
RECURSIVE SortDesc(_)
SortDesc(xs) ==
    IF xs = <<>> THEN <<>> ELSE InsertDesc(xs[Len(xs)], SortDesc(SubSeq(xs, 1, Len(xs) - 1)))

\* xs.slice(0, k)
Take(xs, k) == SubSeq(xs, 1, Min(k, Len(xs)))

\* searchVectors without line 354
searchVectorsUnsorted(rows, queryVec, question, k) ==
    LET keywords == Keywords(question)
        scored == [i \in 1..Len(rows) |-> Scored(rows[i], queryVec, keywords)]
    IN  Take(SelectSeq(scored, LAMBDA x : x.score >= ScoreFloor), k)

\* retrieval.ts searchVectors over the rows of docs
searchVectors(rows, queryVec, question, k) ==
    LET keywords == Keywords(question)
        scored == [i \in 1..Len(rows) |-> Scored(rows[i], queryVec, keywords)]
    IN  Take(SelectSeq(SortDesc(scored), LAMBDA x : x.score >= ScoreFloor), k)

\* answer, lines 363-370
StrictHits(rows, queryVec, question) ==
    LET hits == searchVectors(rows, queryVec, question, TopK)
        must == Keywords(question)
        goodHits == SelectSeq(hits, LAMBDA h : h.score >= GoodScore)
    IN  SelectSeq(goodHits, LAMBDA h : SomeIn(must, h.content))

\* answer, line 376: the evidence, when there is some
TopOf(strictHits) == Take(strictHits, TopHits)

(* The embedding model on short texts: a fixed function to unit vectors,   *)
(* here scaled by 25.                                                      *)
ModelVector(text) ==
    IF Includes(ToLower(text), <<"s", "a", "n", "d">>) THEN <<0, 25, 0>> ELSE <<25, 0, 0>>

(* Stored chunks and questions. *)

MaxFill == 10         \* chunks that score high and hold no keyword

Wind == <<"W", "i", "n", "d">>
Windy == <<"W", "i", "n", "d", "y">>
Sun == <<"S", "u", "n">>
Sandy == <<"s", "a", "n", "d", "y">>

AskRow(url, i, title, content, vec) == Row(url, title, i, content, arrToBuf(vec))

Fillers(n) == [i \in 1..n |-> AskRow("g", i - 1, Sun, Sun, <<20, 15, 0>>)]

\* rows around the thresholds: with and without keywords in title and body
Specials ==
    <<AskRow("e1", 0, Wind, Windy, <<15, 20, 0>>),
      AskRow("e2", 0, Sun, Sandy, <<9, 12, 20>>),
      AskRow("e3", 0, Wind, Windy, <<7, 24, 0>>),
      AskRow("e4", 0, Wind, Windy, <<15, 20, 0>>),
      AskRow("t1", 0, Wind, Sun, <<7, 24, 0>>),
      AskRow("l1", 0, Wind, Windy, <<0, 7, 24>>)>>

SubsequenceOf(xs, keep) == SelectSeq(xs, LAMBDA x : x.url \in keep)
SpecialUrls == {Specials[k].url : k \in 1..Len(Specials)}

SelectStores ==
    UNION {{Fillers(n) \o SubsequenceOf(Specials, keep), SubsequenceOf(Specials, keep) \o Fillers(n)} :
              n \in 0..MaxFill, keep \in SUBSET SpecialUrls}

QWindUp == <<"W", "i", "n", "d", " ", "u", "p">>
QSandWind == <<"S", "a", "n", "d", ",", " ", "w", "i", "n", "d", " ", "s", "a", "n", "d", "?">>
QUp == <<"u", "p", "?">>
Questions == {QWindUp, QSandWind, QUp}

\* the evidence of a question over a store
ApplyEvidence ==
    /\ fnOut = <<>>
    /\ fnOut' = <<TopOf(StrictHits(fnIn.rows, ModelVector(fnIn.question), fnIn.question))>>
    /\ UNCHANGED <<dbDocs, dbInit, pipelines, promise, run, task, embedLog, insLog, resp, crashed, caller>>
    /\ UNCHANGED <<fnIn, dbOld, schema, initPc, ask>>

NextEvidence == ApplyEvidence

SpecEvidence == InitFn([rows : SelectStores, question : Questions]) /\ [][NextEvidence]_vars

-----------------------------------------------------------------------------
(* POST /ask (server.ts) and answer (retrieval.ts) with its calls of embed, *)
(* generateWithLocalLLM and summarize (models.ts).                         *)

\* what the ask actions leave alone
AskFrame == UNCHANGED <<dbDocs, dbInit, run, task, embedLog, insLog, resp, crashed, caller,
                        fnIn, fnOut, dbOld, schema, initPc>>

\* (req.body?.q ?? '').toString()
QueryUntrimmed(v) == IF v.t = "string" THEN v.v ELSE <<>>

\* (req.body?.q ?? '').toString().trim()
QueryOf(v) == IF v.t = "string" THEN Trim(v.v) ELSE <<>>

\* the request bodies: q absent, null, empty, blank, or a question with white space around
Bodies ==
    {Undefined, Null, Str(<<>>), Str(<<" ", "\n">>), Str(QUp),
     Str(<<" ">> \o QSandWind \o <<"\n">>)}

\* one line of the Sources listing: `- ${h.title} — ${h.url}`
Link(h) == [kind |-> "link", title |-> h.title, url |-> h.url]
\* the line (none)
NoneLine == [kind |-> "(none)", title |-> <<>>, url |-> ""]

\* the listing names the best item only
LinksFirstOnly(top) == IF top = <<>> THEN <<>> ELSE <<Link(top[1])>>

\* line 405
Links(top) == [k \in 1..Len(top) |-> Link(top[k])]

\* `${text}\n\nSources:\n${links}`
Template(text, links) == [text |-> text, links |-> links]

\* line 373
NotFound == Template(<<"No answer found in Tuppu.fi content.">>, <<NoneLine>>)

\* res.status(...).json(...)
Send(rec, response) == [rec EXCEPT !.res = Append(@, response), !.pc = "done"]
\* lines 31-32: answer returned a
SendAnswer(rec, a) ==
    Send([rec EXCEPT !.out = <<[kind |-> "returned", value |-> a]>>], [status |-> 200, answer |-> a])
\* lines 33-34: answer threw e
SendError(rec, e) ==
    Send([rec EXCEPT !.out = <<[kind |-> "threw", error |-> e]>>], [status |-> 500, error |-> e])

\* the hits are not looked at
NoEvidenceUnchecked(strictHits) == FALSE

\* line 372: !strictHits.length
NoEvidence(strictHits) == strictHits = <<>>

\* lines 28-31 and 362: the handler up to `await getEmbedder()` in embed
AskReceive(a, body) ==
    /\ ~crashed
    /\ ask[a].pc = "idle"
    /\ LET q == QueryOf(body)
       IN  IF q = <<>>
           THEN /\ ask' = [ask EXCEPT ![a] = Send([@ EXCEPT !.body = <<body>>],
                                                   [status |-> 400, error |-> "Missing q"])]
                /\ UNCHANGED <<pipelines, promise>>
           ELSE /\ ask' = [ask EXCEPT ![a].pc = "embedInit", ![a].body = <<body>>, ![a].q = q,
                                      ![a].p = Returned("embedder"), ![a].calls.embed = @ + 1]
                /\ pipelines' = PipelinesAfterGet("embedder")
                /\ promise' = PromiseAfterGet("embedder")
    /\ AskFrame

\* embed, line 29: the getter promise has settled
AskEmbedderReady(a) ==
    /\ ~crashed
    /\ ask[a].pc = "embedInit"
    /\ pipelines["embedder"][ask[a].p] # "pending"
    /\ ask' = [ask EXCEPT ![a] = IF pipelines["embedder"][ask[a].p] = "rejected"
                                 THEN SendError(@, "model")
                                 ELSE [@ EXCEPT !.pc = "embedInfer"]]
    /\ UNCHANGED <<pipelines, promise>>
    /\ AskFrame

\* lines 76-88: the timer is set and the request is sent
StartGeneration(rec, top) ==
    [rec EXCEPT !.pc = "fetch", !.top = top, !.timer = "armed", !.calls.gen = @ + 1]

\* embed, lines 30-31, and answer, lines 363-399
AskEmbedded(a, ok) ==
    /\ ~crashed
    /\ ask[a].pc = "embedInfer"
    /\ IF ~ok
       THEN ask' = [ask EXCEPT ![a] = SendError(@, "embed")]
       ELSE LET queryVec == ModelVector(Take(ask[a].q, EmbedBudget))
                strictHits == StrictHits(dbDocs, queryVec, ask[a].q)
                scanned == [ask[a] EXCEPT !.calls.scan = @ + 1]
            IN  ask' = [ask EXCEPT ![a] =
                           IF NoEvidence(strictHits)
                           THEN SendAnswer([scanned EXCEPT !.path = "notfound"], NotFound)
                           ELSE StartGeneration(scanned, TopOf(strictHits))]
    /\ UNCHANGED <<pipelines, promise>>
    /\ AskFrame

\* lines 104-105 and 400-402: generateWithLocalLLM throws e, the timer is cleared, answer
\* calls summarize up to `await getSummarizer()`
Fallback(a, e, late) ==
    /\ ask' = [ask EXCEPT ![a].pc = "sumInit", ![a].gen = <<e>>, ![a].timer = "cleared",
                          ![a].deadline = late,
                          ![a].path = "fallback", ![a].p = Returned("summarizer"),
                          ![a].calls.sum = @ + 1]
    /\ pipelines' = PipelinesAfterGet("summarizer")
    /\ promise' = PromiseAfterGet("summarizer")

\* line 80: fetch rejects (no connection)
GenFetchFail(a) ==
    /\ ~crashed
    /\ ask[a].pc = "fetch"
    /\ Fallback(a, Throws("fetch"), FALSE)
    /\ AskFrame

\* the responses the server gives to a request of /ask
AskResponses ==
    {OkResponse(Obj([choices |-> Arr(<<Obj([message |-> Obj([content |-> Str(<<"A">>)])])>>)])),
     OkResponse(Obj([choices |-> Arr(<<>>)])),
     ErrorResponse(503, TRUE, <<"E">>)}

\* line 80: fetch resolves with the status line and headers of response r
GenHeaders(a, r) ==
    /\ ~crashed
    /\ ask[a].pc = "fetch"
    /\ ask' = [ask EXCEPT ![a].pc = IF r.ok THEN "body" ELSE "errBody", ![a].r = <<r>>]
    /\ UNCHANGED <<pipelines, promise>>
    /\ AskFrame

\* lines 90-91: r.text() settles
GenErrBody(a) ==
    /\ ~crashed
    /\ ask[a].pc = "errBody"
    /\ Fallback(a, Completion(ask[a].r[1]), FALSE)
    /\ AskFrame

\* lines 94-106 and 405-406: r.json() settles
GenBody(a) ==
    /\ ~crashed
    /\ ask[a].pc = "body"
    /\ LET o == Completion(ask[a].r[1])
       IN  IF o.kind = "text"
           THEN /\ ask' = [ask EXCEPT ![a] =
                              SendAnswer([@ EXCEPT !.gen = <<o>>, !.timer = "cleared", !.path = "llm"],
                                         Template(o.text, Links(ask[a].top)))]
                /\ UNCHANGED <<pipelines, promise>>
           ELSE Fallback(a, o, FALSE)
    /\ AskFrame

\* the abort reaches only a fetch that has not resolved yet
AbortsFetchOnly(pc) == pc = "fetch"

\* ctrl.abort() rejects the pending fetch and the pending read of the body
Aborts(pc) == pc \in {"fetch", "body", "errBody"}

\* line 77: the timer fires and aborts the request; an aborted r.text() is caught at
\* line 90
GenTimeout(a) ==
    /\ ~crashed
    /\ ask[a].timer = "armed"
    /\ ~ask[a].deadline
    /\ IF Aborts(ask[a].pc)
       THEN Fallback(a, IF ask[a].pc = "errBody"
                        THEN ThrowsHttp(ask[a].r[1].status, <<>>)
                        ELSE Throws("abort"), TRUE)
       ELSE /\ ask' = [ask EXCEPT ![a].deadline = TRUE]
            /\ UNCHANGED <<pipelines, promise>>
    /\ AskFrame

\* summarize, line 38: the getter promise has settled
SumReady(a) ==
    /\ ~crashed
    /\ ask[a].pc = "sumInit"
    /\ pipelines["summarizer"][ask[a].p] # "pending"
    /\ ask' = [ask EXCEPT ![a] = IF pipelines["summarizer"][ask[a].p] = "rejected"
                                 THEN SendError(@, "model")
                                 ELSE [@ EXCEPT !.pc = "sumInfer"]]
    /\ UNCHANGED <<pipelines, promise>>
    /\ AskFrame

\* result[0].summary_text of the summarizer
Summaries == {Undefined, Str(<<>>), Str(<<"S">>)}

\* summarize, lines 39-40, and answer, lines 405-406
SumDone(a, ok, summary) ==
    /\ ~crashed
    /\ ask[a].pc = "sumInfer"
    /\ ask' = [ask EXCEPT ![a] =
                  IF ~ok
                  THEN SendError(@, "summarize")
                  ELSE SendAnswer(@, Template(IF summary.t = "string" THEN summary.v ELSE <<>>,
                                              Links(ask[a].top)))]
    /\ UNCHANGED <<pipelines, promise>>
    /\ AskFrame

\* stores without evidence, with evidence, and with the evidence ranked out
AskStores == {<<>>, Fillers(2), Specials, Fillers(MaxFill) \o <<Specials[2]>>}

InitAsk ==
    /\ dbDocs \in AskStores
    /\ dbInit = dbDocs
    /\ InitProcess

NextAsk ==
    \/ \E k \in Kinds, o \in {"fulfilled", "rejected"} :
        \E p \in 1..Len(pipelines[k]) : PipelineSettle(k, p, o)
    \/ \E a \in Asks, body \in Bodies : AskReceive(a, body)
    \/ \E a \in Asks : AskEmbedderReady(a)
    \/ \E a \in Asks, ok \in BOOLEAN : AskEmbedded(a, ok)
    \/ \E a \in Asks : GenFetchFail(a)
    \/ \E a \in Asks, r \in AskResponses : GenHeaders(a, r)
    \/ \E a \in Asks : GenErrBody(a)
    \/ \E a \in Asks : GenBody(a)
    \/ \E a \in Asks : GenTimeout(a)
    \/ \E a \in Asks : SumReady(a)
    \/ \E a \in Asks, ok \in BOOLEAN, summary \in Summaries : SumDone(a, ok, summary)

\* POST /ask requests over a store that does not change
SpecAsk == InitAsk /\ [][NextAsk]_vars

-----------------------------------------------------------------------------
(* POST /generate-article and POST /generate-and-post (server.ts) with     *)
(* generateArticle, findRelevantContent, postToWordPress and               *)
(* generateAndPost (wordpress.ts).                                         *)

MaxArticles == 1      \* article requests

ArticleTitleBoost == 10   \* s += 0.1
ArticleBodyBoost == 5     \* s += 0.05
ArticleFloor == 30        \* x.score >= 0.3
ArticleLimit == 5         \* findRelevantContent(keywords, 5)
TitleMax == 80            \* title.length > 80
TitleKept == 77           \* title.slice(0, 77)

Articles == 1..Min(MaxArticles, MaxAsks)
Quotes == {"\"", "'"}

\* keywords.join(sep)
RECURSIVE Join(_, _)
Join(words, sep) ==
    IF words = <<>> THEN <<>>
    ELSE IF Len(words) = 1 THEN words[1]
    ELSE words[1] \o sep \o Join(Tail(words), sep)

\* the number of keywords the text holds
RECURSIVE CountIn(_, _)
CountIn(keywords, text) ==
    IF keywords = <<>> THEN 0
    ELSE (IF Includes(text, Head(keywords)) THEN 1 ELSE 0) + CountIn(Tail(keywords), text)

\* wordpress.ts findRelevantContent, lines 64-82, over the rows of docs
findRelevantContent(rows, queryVec, keywords, limit) ==
    LET lowerKeywords == [k \in 1..Len(keywords) |-> ToLower(keywords[k])]
        scored == [i \in 1..Len(rows) |->
                      [url |-> rows[i].url, title |-> rows[i].title,
                       chunk_index |-> rows[i].chunk_index, content |-> rows[i].content,
                       vector |-> rows[i].vector,
                       score |-> cosSim(queryVec, bufToArr(rows[i].vector))
                                   + ArticleTitleBoost * CountIn(lowerKeywords, ToLower(rows[i].title))
                                   + ArticleBodyBoost * CountIn(lowerKeywords, ToLower(rows[i].content))]]
    IN  Take(SelectSeq(SortDesc(scored), LAMBDA x : x.score >= ArticleFloor), limit)

\* replace(/^["']|["']$/g, ''): a quote at the start and one at the end are removed
StripQuotes(s) ==
    LET t == IF s # <<>> /\ Head(s) \in Quotes THEN Tail(s) ELSE s
    IN  IF t # <<>> /\ t[Len(t)] \in Quotes THEN SubSeq(t, 1, Len(t) - 1) ELSE t

\* split('\n')[0]
RECURSIVE FirstLine(_)
FirstLine(s) ==
    IF s = <<>> \/ Head(s) = "\n" THEN <<>> ELSE <<Head(s)>> \o FirstLine(Tail(s))

\* lines 144-148 and 205: the title of the article from the generated text
CleanTitle(text) ==
    LET stripped == StripQuotes(Trim(text))
        line == IF FirstLine(stripped) # <<>> THEN FirstLine(stripped) ELSE stripped
        cut == IF Len(line) > TitleMax THEN SubSeq(line, 1, TitleKept) \o <<".", ".", ".">> ELSE line
    IN  Trim(StripQuotes(cut))

\* sanitizeArticleContent(contentRaw).trim(): a function of the generated text
Sanitized(text) == [sanitizeArticleContent |-> text]

\* lines 199-209: what generateArticle returns
Article(texts, relevantDocs) ==
    [title |-> CleanTitle(texts[1]), content |-> Sanitized(texts[2]), excerpt |-> Trim(texts[3]),
     sources |-> [k \in 1..Min(3, Len(relevantDocs)) |->
                     [title |-> relevantDocs[k].title, url |-> relevantDocs[k].url]]]

\* the keywords of the request bodies: absent, a string, no keyword, one, two
KeywordBodies ==
    {Undefined, Str(Wind), Arr(<<>>), Arr(<<Sandy>>), Arr(<<Wind, Sandy>>)}

\* what one generateWithLocalLLM call ends with: the fetch rejects, the timer aborts
\* the request, or a response arrives
ArticleResponses ==
    {OkResponse(Obj([choices |-> Arr(<<Obj([message |-> Obj([content |-> Str(<<"A">>)])])>>)])),
     OkResponse(Obj([choices |-> Arr(<<Obj([text |-> Str(<<"\"", "T", "\"", "\n", "x">>)])>>)])),
     OkResponse(Obj([choices |-> Arr(<<>>)])),
     ErrorResponse(503, TRUE, <<"E">>)}
LlmOutcomes == {Throws("fetch"), Throws("abort")} \cup {Completion(r) : r \in ArticleResponses}

\* server.ts 41-47 and 73-79, wordpress.ts 89-96 and 57-58: the handler up to
\* `await getEmbedder()` in embed
ArticleReceive(a, route, keywords) ==
    /\ ~crashed
    /\ ask[a].pc = "idle"
    /\ IF keywords.t # "array" \/ keywords.v = <<>>
       THEN /\ ask' = [ask EXCEPT ![a] = Send([@ EXCEPT !.body = <<keywords>>, !.path = route],
                                               [status |-> 400, error |-> "keywords array is required"])]
            /\ UNCHANGED <<pipelines, promise>>
       ELSE /\ ask' = [ask EXCEPT ![a].pc = "embedInit", ![a].body = <<keywords>>, ![a].path = route,
                                  ![a].q = Join(keywords.v, <<" ">>),
                                  ![a].p = Returned("embedder"), ![a].calls.embed = @ + 1]
            /\ pipelines' = PipelinesAfterGet("embedder")
            /\ promise' = PromiseAfterGet("embedder")
    /\ AskFrame

\* embed, lines 30-31; findRelevantContent, lines 60-82; generateArticle, lines 98-141,
\* up to the first generateWithLocalLLM call
ArticleEmbedded(a, ok) ==
    /\ ~crashed
    /\ ask[a].pc = "embedInfer"
    /\ IF ~ok
       THEN ask' = [ask EXCEPT ![a] = SendError(@, "embed")]
       ELSE LET queryVec == ModelVector(Take(ask[a].q, EmbedBudget))
                relevantDocs == findRelevantContent(dbDocs, queryVec, ask[a].body[1].v, ArticleLimit)
                scanned == [ask[a] EXCEPT !.calls.scan = @ + 1]
            IN  ask' = [ask EXCEPT ![a] =
                           IF relevantDocs = <<>>
                           THEN SendError(scanned, "No relevant content")
                           ELSE [scanned EXCEPT !.pc = "title", !.top = relevantDocs,
                                                !.calls.gen = @ + 1]]
    /\ UNCHANGED <<pipelines, promise>>
    /\ AskFrame

\* wordpress.ts 137-209, server.ts 47-51 and 79-83, wordpress.ts 307-308: a call of
\* generateWithLocalLLM ends with o, a text or an exception.  The exception leaves
\* generateArticle and reaches the catch of the handler
ArticleGenerated(a, o) ==
    /\ ~crashed
    /\ ask[a].pc \in {"title", "content", "excerpt"}
    /\ LET rec == [ask[a] EXCEPT !.gen = <<o>>]
       IN  ask' = [ask EXCEPT ![a] =
                      IF o.kind = "error" THEN SendError(rec, o.name)
                      ELSE IF ask[a].pc = "title"
                      THEN [rec EXCEPT !.pc = "content", !.r = <<o.text>>, !.calls.gen = @ + 1]
                      ELSE IF ask[a].pc = "content"
                      THEN [rec EXCEPT !.pc = "excerpt", !.r = Append(@, o.text), !.calls.gen = @ + 1]
                      ELSE LET article == Article(Append(ask[a].r, o.text), ask[a].top)
                           IN  IF ask[a].path = "generate-article"
                               THEN Send([rec EXCEPT !.out = <<[kind |-> "returned", value |-> article]>>],
                                         [status |-> 200, article |-> article])
                               ELSE [rec EXCEPT !.pc = "post",
                                                !.out = <<[kind |-> "returned", value |-> article]>>]]
    /\ UNCHANGED <<pipelines, promise>>
    /\ AskFrame

\* wordpress.ts 253-298 and 308-313, server.ts 80-83: postToWordPress returns or throws
ArticlePosted(a, posted) ==
    /\ ~crashed
    /\ ask[a].pc = "post"
    /\ ask' = [ask EXCEPT ![a] =
                  IF posted = "posted"
                  THEN Send(@, [status |-> 200, article |-> ask[a].out[1].value, post |-> posted])
                  ELSE SendError(@, posted)]
    /\ UNCHANGED <<pipelines, promise>>
    /\ AskFrame

NextArticle ==
    \/ \E o \in {"fulfilled", "rejected"} :
        \E p \in 1..Len(pipelines["embedder"]) : PipelineSettle("embedder", p, o)
    \/ \E a \in Articles, route \in {"generate-article", "generate-and-post"},
           keywords \in KeywordBodies : ArticleReceive(a, route, keywords)
    \/ \E a \in Articles : AskEmbedderReady(a)
    \/ \E a \in Articles, ok \in BOOLEAN : ArticleEmbedded(a, ok)
    \/ \E a \in Articles, o \in LlmOutcomes : ArticleGenerated(a, o)
    \/ \E a \in Articles, posted \in {"posted", "credentials", "fetch", "http"} :
           ArticlePosted(a, posted)

\* article requests over a store that does not change
SpecArticle == InitAsk /\ [][NextArticle]_vars

(* The two entry points of the pipeline side by side: a behaviour is one of *)
(* indexAll runs (index.ts, POST /reindex) or one of POST /ask requests.   *)
InitPipeline ==
    /\ fnIn \in {[entry |-> "indexAll"], [entry |-> "answer"]}
    /\ dbDocs \in (IF fnIn.entry = "indexAll" THEN InitStores ELSE AskStores)
    /\ dbInit = dbDocs
    /\ fnOut = <<>>
    /\ dbOld = <<>>
    /\ schema = CurrentSchema
    /\ initPc = "done"
    /\ ask = [a \in Asks |-> IdleAsk]
    /\ InitIndexer

NextPipeline ==
    \/ fnIn.entry = "indexAll" /\ Next
    \/ fnIn.entry = "answer" /\ NextAsk

SpecPipeline == InitPipeline /\ [][NextPipeline]_vars

-----------------------------------------------------------------------------
(* Notions the properties share. *)

Docs(r) == 1..Len(task[r])
Started == {r \in Runs : run[r].pc # "idle"}

\* nothing of run r can happen any more
Over(r) ==
    /\ run[r].pc \in {"resolved", "rejected"}
    /\ \A d \in Docs(r) : task[r][d].st \in {"done", "failed"}

RowSet(db) == {db[k] : k \in 1..Len(db)}

\* the rows indexAll writes for one document when none of its chunks is stored
ChunkRows(doc) ==
    LET parts == chunk(doc.content, ChunkSize, ChunkOverlap)
    IN  {Row(doc.url, doc.title, i - 1, parts[i],
             arrToBuf(Embedding(EmbedInput(doc.title, parts[i])))) : i \in 1..Len(parts)}

\* the table after one indexAll over feed that nothing disturbed, started on db0
SingleRun(db0, feed) ==
    RowSet(db0) \cup {row \in UNION {ChunkRows(feed[d]) : d \in 1..Len(feed)} :
                         ~Exists(db0, row.url, row.chunk_index)}

\* run r called ins.run for the pair (url, i)
Inserted(r, url, i) == CopiesIn(<<url, i>>, insLog[r]) > 0
\* run r called embed for the pair (url, i)
Embedded(r, url, i) == CopiesIn(<<url, i>>, embedLog[r]) > 0

-----------------------------------------------------------------------------
(* C1: in every reachable state, whatever the interleaving of indexAll runs, *)
(* no two rows of docs have the same (url, chunk_index).                    *)
C1_UniquePair ==
    \A k1, k2 \in 1..Len(dbDocs) :
        (dbDocs[k1].url = dbDocs[k2].url /\ dbDocs[k1].chunk_index = dbDocs[k2].chunk_index)
            => k1 = k2

\* two runs both found the pair absent and both ran the insert for it
C1_Witness ==
    \E r1, r2 \in Runs : \E k \in 1..Len(dbDocs) :
        /\ r1 # r2
        /\ Inserted(r1, dbDocs[k].url, dbDocs[k].chunk_index)
        /\ Inserted(r2, dbDocs[k].url, dbDocs[k].chunk_index)

(* C2: an ins.run for a pair that is already stored raises no error and     *)
(* leaves the table as it was (row count, title, content and vector of the *)
(* stored row), also when the document changed and when the row was        *)
(* written by another run after this run's exists check.                   *)
C2_ExistingInsertNoOp ==
    [][\A r \in Runs : \A d \in Docs(r) :
         ( /\ task[r][d].st = "infer"
           /\ insLog'[r] # insLog[r]
           /\ task'[r][d] # task[r][d]
           /\ task'[r][d].err # "store"
           /\ Exists(dbDocs, run[r].docs[d].url, task[r][d].i) )
         => (dbDocs' = dbDocs /\ task'[r][d].st # "failed")]_vars

\* a run ran the insert for a pair whose stored row has another title and content:
\* the insert was ignored and the row written from the other version stayed
C2_Witness ==
    \E r \in Runs : \E d \in Docs(r) : \E k \in 1..Len(dbDocs) :
        /\ dbDocs[k].url = run[r].docs[d].url
        /\ Inserted(r, dbDocs[k].url, dbDocs[k].chunk_index)
        /\ dbDocs[k].title # run[r].docs[d].title
        /\ dbDocs[k].content # Parts(r, d)[dbDocs[k].chunk_index + 1]
        /\ task[r][d].st = "done"

(* C3: when every indexAll that was started ran over the same documents and *)
(* is over, and one of them met no failure, the table holds exactly the    *)
(* rows of a single run over these documents, each once.                   *)
C3_Idempotent ==
    \A f \in Feeds \cup {WideFeed} :
        ( /\ Started # {}
          /\ \A r \in Started : run[r].docs = f /\ run[r].err # "fetch" /\ Over(r)
          /\ \E r \in Started : \A d \in Docs(r) : task[r][d].st = "done" )
        => ( /\ RowSet(dbDocs) = SingleRun(dbInit, f)
             /\ Len(dbDocs) = Cardinality(SingleRun(dbInit, f)) )

\* two overlapping runs over the same documents are over, both ran inserts, and
\* the table held a row of one of the documents before
C3_Witness ==
    \E r1, r2 \in Started :
        /\ r1 # r2
        /\ \A r \in Started : run[r].docs = run[r1].docs /\ Over(r)
        /\ \A d \in Docs(r1) : task[r1][d].st = "done"
        /\ \A d \in Docs(r2) : task[r2][d].st = "done"
        /\ insLog[r1] # EmptyBag /\ insLog[r2] # EmptyBag
        /\ \E k \in 1..Len(dbInit) : dbInit[k].url = "u1"

(* C4: within one indexAll run at most 3 documents are in flight at any     *)
(* moment.                                                                 *)
C4_AtMost3InFlight == \A r \in Runs : Active(r) <= 3

\* three documents in flight, the fourth was started after one had settled,
\* another is still queued
C4_Witness ==
    \E r \in Runs :
        /\ Active(r) = 3
        /\ Len(task[r]) >= 4
        /\ task[r][4].st \in {"init", "infer"}
        /\ \E d \in 1..3 : task[r][d].st \in {"done", "failed"}

(* C5: process-wide, over all indexAll invocations that are active at the   *)
(* same time, at most 3 documents are being indexed at any moment.         *)
C5_ProcessWideAtMost3 ==
    Cardinality({rd \in Runs \X (1..MaxWide) :
                    rd[2] \in Docs(rd[1]) /\ task[rd[1]][rd[2]].st \in {"init", "infer"}}) <= 3

(* C6: a failure in one document of a run does not abort the other docu-    *)
(* ments of the run: once nothing of the run can happen any more, and the  *)
(* embedding or the insert of one document's chunk had failed, every       *)
(* document whose own task did not fail has all its chunks stored.         *)
C6_OthersProceed ==
    \A r \in Runs :
        ( /\ crashed \/ Over(r)
          /\ \E d \in Docs(r) : task[r][d].st = "failed" /\ task[r][d].err \in {"embed", "store"} )
        => \A d \in Docs(r) :
               task[r][d].st # "failed"
                   => \A i \in 0..(Len(Parts(r, d)) - 1) : Exists(dbDocs, run[r].docs[d].url, i)

(* C7: indexAll rejects, and POST /reindex answers 500, only when the       *)
(* whole run cannot proceed: the fetch failed, the store is unavailable,   *)
(* (or the embedding model did not load); the failure of one embedding is  *)
(* contained.                                                              *)
C7_RejectsOnlyWholeRun ==
    \A r \in Runs :
        (run[r].pc = "rejected" \/ resp[r] = 500) => run[r].err \in {"fetch", "store", "model"}

(* C8: when the embedding of chunk i of a document fails, the chunks after  *)
(* i of that document are still handled by the same run: each is stored or *)
(* was embedded by the run.                                                *)
C8_SiblingChunksProceed ==
    \A r \in Runs : \A d \in Docs(r) :
        (task[r][d].st = "failed" /\ task[r][d].err = "embed")
            => \A j \in (task[r][d].i + 1)..(Len(Parts(r, d)) - 1) :
                   \/ Exists(dbDocs, run[r].docs[d].url, j)
                   \/ Embedded(r, run[r].docs[d].url, j)

(* C9: a run whose fetchAllPosts threw is rejected without any document     *)
(* task, embed call or insert; while no other run got its documents, the   *)
(* table is as it was.                                                     *)
C9_FetchFailureAbandons ==
    /\ \A r \in Runs :
           run[r].err = "fetch"
               => /\ run[r].pc = "rejected"
                  /\ task[r] = <<>>
                  /\ embedLog[r] = EmptyBag
                  /\ insLog[r] = EmptyBag
    /\ (\A r \in Runs : run[r].pc \in {"idle", "fetching"} \/ run[r].err = "fetch")
           => dbDocs = dbInit

\* a /reindex run failed at the fetch and was answered 500, beside a run that wrote
C9_Witness ==
    \E r, q \in Runs :
        /\ run[r].err = "fetch"
        /\ resp[r] = 500
        /\ insLog[q] # EmptyBag
        /\ dbDocs # dbInit

(* C10: per model kind at most one pipeline is ever constructed, every call *)
(* awaits that one, and once it settled every call sees its outcome.       *)
C10_SingleFlight ==
    /\ \A k \in Kinds : Len(pipelines[k]) <= 1
    /\ \A c \in Callers :
           caller[c].st # "idle"
               => /\ caller[c].p = 1
                  /\ promise[caller[c].kind] = 1
                  /\ caller[c].saw \in {"none", pipelines[caller[c].kind][1]}
                  /\ (caller[c].st = "init") = (caller[c].saw = "none")
                  /\ caller[c].saw = "rejected" => caller[c].st = "failed"

\* two embed calls, the second made while the first initialisation was pending,
\* both saw it fail; two summarize calls likewise both saw theirs succeed
C10_Witness ==
    \E c1, c2, c3, c4 \in Callers :
        /\ caller[c1].kind = "embedder" /\ caller[c1].joined = "first"
        /\ caller[c2].kind = "embedder" /\ caller[c2].joined = "pending"
        /\ caller[c1].saw = "rejected" /\ caller[c2].saw = "rejected"
        /\ caller[c3].kind = "summarizer" /\ caller[c3].joined = "first"
        /\ caller[c4].kind = "summarizer" /\ caller[c4].joined = "pending"
        /\ caller[c3].saw = "fulfilled" /\ caller[c4].saw = "fulfilled"

-----------------------------------------------------------------------------
(* Further properties of indexAll. *)

\* the chunk ordinals stored for a url
Ordinals(db, url) == {db[k].chunk_index : k \in {j \in 1..Len(db) : db[j].url = url}}
StoredUrls(db) == {db[k].url : k \in 1..Len(db)}

(* C24: for every document key the stored chunk ordinals are {0, ..., m-1}  *)
(* for some m, in every reachable state, under any interleaving of runs,   *)
(* embedding failures and re-indexing of a document that grew or shrank.   *)
C24_ContiguousOrdinals ==
    \A url \in StoredUrls(dbDocs) :
        Ordinals(dbDocs, url) = 0..(Cardinality(Ordinals(dbDocs, url)) - 1)

\* u1 was indexed with two chunks by one run and with one chunk by another, and
\* an embedding failed in one of them
C24_Witness ==
    \E r1, r2 \in Runs :
        /\ run[r1].docs = FeedA /\ Over(r1)
        /\ run[r2].docs = FeedB /\ Over(r2)
        /\ Ordinals(dbDocs, "u1") = {0, 1}
        /\ \E d \in Docs(r2) : task[r2][d].st = "failed" /\ task[r2][d].err = "embed"

\* the pairs for which the step calls embed, and those for which it runs the insert
EmbedsIn(r, pair) == CopiesIn(pair, embedLog'[r]) > CopiesIn(pair, embedLog[r])
InsertsIn(r, pair) == CopiesIn(pair, insLog'[r]) > CopiesIn(pair, insLog[r])

(* C25: every embed call of an indexAll run is for a pair (url,             *)
(* chunk_index) that is not in the store; the vector it produces is the    *)
(* one stored for the pair: the insert that follows is not ignored, the    *)
(* pair being still absent when it runs; under any interleaving of runs.   *)
C25_EmbedsNewOnly ==
    [][\A r \in Runs : \A d \in Docs(r) :
          LET doc == run[r].docs[d]
              i == task[r][d].i
          IN  /\ \A j \in 0..(Len(Parts(r, d)) - 1) :
                    EmbedsIn(r, <<doc.url, j>>) => ~Exists(dbDocs', doc.url, j)
              /\ (task[r][d].st = "infer" /\ InsertsIn(r, <<doc.url, i>>)
                    /\ task'[r][d].err # "store") =>
                    /\ ~Exists(dbDocs, doc.url, i)
                    /\ Row(doc.url, doc.title, i, Parts(r, d)[i + 1],
                           arrToBuf(Embedding(EmbedInput(doc.title, Parts(r, d)[i + 1]))))
                          \in RowSet(dbDocs')]_vars

(* C28: once an indexAll call has settled (POST /reindex has answered), no  *)
(* document task of the run is running or queued, and the run makes no     *)
(* further embed call and no further insert.                               *)
C28_SettledRunIsQuiet ==
    /\ [](\A r \in Runs :
            run[r].pc \in {"resolved", "rejected"} =>
                \A d \in Docs(r) : task[r][d].st \in {"done", "failed"})
    /\ [][\A r \in Runs :
            run[r].pc \in {"resolved", "rejected"} =>
                embedLog'[r] = embedLog[r] /\ insLog'[r] = insLog[r]]_vars

-----------------------------------------------------------------------------
(* Properties of chunk. *)

\* the call returned
ChunkDone == fnOut # <<>>
Chunks == fnOut[1]
\* ceil(a / b) for b > 0
CeilDiv(a, b) == (a + b - 1) \div b
ChunkStep == Max(1, fnIn.size - fnIn.overlap)

(* C19: for any text, size S >= 1 and overlap O, the start offsets of the   *)
(* chunks are strictly increasing and smaller than the text length, every  *)
(* chunk is non-empty and at most S long, only the last chunk is shorter   *)
(* than S when the step is at most S, and an empty text yields no chunk.   *)
C19_ChunkShape ==
    ChunkDone =>
        /\ \A k \in 1..Len(Chunks) :
              /\ StrLen(Chunks[k]) >= 1
              /\ StrLen(Chunks[k]) <= fnIn.size
              /\ Chunks[k].lo < StrLen(fnIn.text)
              /\ k > 1 => Chunks[k - 1].lo < Chunks[k].lo
        /\ ChunkStep <= fnIn.size =>
              \A k \in 1..(Len(Chunks) - 1) : StrLen(Chunks[k]) = fnIn.size
        /\ StrLen(fnIn.text) = 0 => Chunks = <<>>

(* C20: for a text of length L >= 1 and 0 <= O < S, chunk returns           *)
(* ceil(max(1, L - O) / (S - O)) chunks.                                   *)
C20_ChunkCount ==
    (ChunkDone /\ StrLen(fnIn.text) >= 1 /\ 0 <= fnIn.overlap /\ fnIn.overlap < fnIn.size) =>
        Len(Chunks) = CeilDiv(Max(1, StrLen(fnIn.text) - fnIn.overlap), fnIn.size - fnIn.overlap)

\* the loop state of a call of chunk, and whether the call returned
InChunk == fnOut # <<>>
ChunkReturned == InChunk /\ fnOut[1].pc = "returned"

(* C21: chunk terminates for every text, size and overlap, also when        *)
(* overlap >= size: every iteration advances the start offset by           *)
(* max(1, size - overlap) >= 1, no more than L chunks are produced for a   *)
(* text of length L, and the call returns.                                 *)
C21_ChunkTerminates ==
    /\ [](InChunk => Len(fnOut[1].out) <= StrLen(fnIn.text))
    /\ [][(InChunk /\ fnOut'[1].i # fnOut[1].i) =>
             /\ fnOut'[1].i - fnOut[1].i = Max(1, fnIn.size - fnIn.overlap)
             /\ fnOut'[1].i - fnOut[1].i >= 1]_vars
    /\ <>ChunkReturned

\* the call returned as many chunks as the text has characters, with overlap >= size
C21_Witness ==
    /\ ChunkReturned
    /\ fnIn.overlap >= fnIn.size
    /\ StrLen(fnIn.text) = MaxText
    /\ Len(fnOut[1].out) = StrLen(fnIn.text)

\* chunk number k (from 0) as the claim gives it
ClaimedChunk(k) ==
    Slice(fnIn.text, k * ChunkStep, Min(StrLen(fnIn.text), k * ChunkStep + fnIn.size))

(* C30: for S >= 1 and overlap >= 0 every character position of the text    *)
(* lies in some chunk, chunk number k is text[k*step, min(L, k*step + S))  *)
(* with step = max(1, S - overlap), and two consecutive chunks of full     *)
(* size share exactly S - step characters.                                 *)
C30_ChunkLosesNoText ==
    (ChunkDone /\ fnIn.size >= 1 /\ fnIn.overlap >= 0) =>
        /\ \A pos \in 0..(StrLen(fnIn.text) - 1) :
              \E k \in 1..Len(Chunks) : Chunks[k].lo <= pos /\ pos < Chunks[k].hi
        /\ \A k \in 1..Len(Chunks) : Chunks[k] = ClaimedChunk(k - 1)
        /\ \A k \in 1..(Len(Chunks) - 1) :
              (StrLen(Chunks[k]) = fnIn.size /\ StrLen(Chunks[k + 1]) = fnIn.size) =>
                  Chunks[k].hi - Chunks[k + 1].lo = fnIn.size - ChunkStep

\* the default window over a text with two full chunks and a short one
C30_Witness ==
    /\ ChunkDone
    /\ fnIn.size = ChunkSize
    /\ fnIn.overlap = ChunkOverlap
    /\ Len(Chunks) = 3
    /\ StrLen(Chunks[2]) = ChunkSize
    /\ Chunks[1].hi - Chunks[2].lo = ChunkOverlap

-----------------------------------------------------------------------------
(* Properties of generateWithLocalLLM on a response that arrived. *)

\* choices[0].message.content and choices[0].text of a response body
FirstChoice(r) ==
    IF r.isJson /\ "choices" \in DOMAIN r.body.v /\ r.body.v.choices.v # <<>>
    THEN r.body.v.choices.v[1].v
    ELSE <<>>
ContentField(r) ==
    LET c == FirstChoice(r)
    IN  IF "message" \in DOMAIN c /\ c.message.t = "object" /\ "content" \in DOMAIN c.message.v
           /\ c.message.v.content.t = "string"
        THEN c.message.v.content.v
        ELSE <<>>
TextField(r) ==
    LET c == FirstChoice(r)
    IN  IF "text" \in DOMAIN c /\ c.text.t = "string" THEN c.text.v ELSE <<>>
\* absent fields count as blank
Blank(s) == \A k \in 1..Len(s) : s[k] \in WhiteSpace

(* C15: generateWithLocalLLM returns text exactly when the response is a    *)
(* success and choices[0].message.content or choices[0].text is non-blank  *)
(* after trimming, the trimmed message.content taking precedence; a        *)
(* non-success response fails with its status and body, and a success with *)
(* both fields absent or blank fails.                                      *)
C15_TextExactlyWhenNonBlank ==
    fnOut # <<>> =>
        LET r == fnIn
            o == fnOut[1]
        IN  IF ~r.ok
            THEN /\ o.kind = "error"
                 /\ o.status = r.status
                 /\ r.readable => o.body = r.body.v
            ELSE IF Blank(ContentField(r)) /\ Blank(TextField(r))
                 THEN o.kind = "error"
                 ELSE /\ o.kind = "text"
                      /\ o.text = IF ~Blank(ContentField(r))
                                  THEN Trim(ContentField(r))
                                  ELSE Trim(TextField(r))

\* both fields are non-blank and differ
C15_Witness ==
    /\ fnOut # <<>>
    /\ fnIn.ok
    /\ ~Blank(ContentField(fnIn))
    /\ ~Blank(TextField(fnIn))
    /\ fnOut[1] = Returns(<<"A", " ", "A">>)

-----------------------------------------------------------------------------
(* Properties of initDatabase. *)

\* initDatabase returned or threw
InitEnded == fnOut # <<>>
OldTable == fnIn.rows
DistinctUrls(rows) ==
    /\ \A k \in 1..Len(rows) : rows[k].url # SqlNull
    /\ \A j, k \in 1..Len(rows) : j # k => rows[j].url # rows[k].url
\* the docs table holds one row per old row, in the current shape, and nothing else of
\* the migration is left
MigratedWhole ==
    /\ fnOut = <<"returned">>
    /\ schema = CurrentSchema
    /\ dbOld = <<>>
    /\ Len(dbDocs) = Len(OldTable)
    /\ \A k \in 1..Len(OldTable) :
          /\ dbDocs[k].url = OldTable[k].url
          /\ dbDocs[k].title = OldTable[k].title
          /\ dbDocs[k].content = OldTable[k].content
          /\ dbDocs[k].vector = OldTable[k].vector
          /\ dbDocs[k].chunk_index = 0

(* C17 as stated: initDatabase on a docs table of the old shape ends with   *)
(* one row per old row (same url, title, content, vector, chunk_index 0),  *)
(* docs_old removed and the unique index in place, for every content of    *)
(* the old table.                                                          *)
C17_AnyOldTable == (InitEnded /\ fnIn.docs = "old") => MigratedWhole

(* C17 amended: the same, for every old table whose urls are not NULL and   *)
(* pairwise distinct.                                                      *)
C17_DistinctUrlsMigrate ==
    (InitEnded /\ fnIn.docs = "old" /\ DistinctUrls(OldTable)) => MigratedWhole

C17_Witness ==
    /\ InitEnded
    /\ fnIn.docs = "old"
    /\ DistinctUrls(OldTable)
    /\ Len(OldTable) = 2
    /\ OldTable[1].content # OldTable[2].content
    /\ MigratedWhole

(* C26: the migration is safe against interruption: when the process has   *)
(* stopped after a step of initDatabase and initDatabase was run again at  *)
(* the next start, the store ends with every old row migrated exactly once *)
(* into docs and without a docs_old table (for old tables that migrate     *)
(* when nothing stops the process).                                        *)
C26_InterruptionSafe ==
    (crashed /\ InitEnded /\ fnIn.docs = "old" /\ DistinctUrls(OldTable)) => MigratedWhole

-----------------------------------------------------------------------------
(* Properties of the evidence selection. *)

\* the steps in the order the claim gives them
ClaimedEvidence(rows, question) ==
    LET keywords == Keywords(question)
        scored == [i \in 1..Len(rows) |-> Scored(rows[i], ModelVector(question), keywords)]
        kept == SelectSeq(scored, LAMBDA x : x.score >= ScoreFloor)
        first10 == Take(SortDesc(kept), 10)
        good == SelectSeq(first10, LAMBDA x : x.score >= GoodScore)
        lexical == SelectSeq(good, LAMBDA x : SomeIn(keywords, x.content))
    IN  Take(lexical, 3)

(* C16: the evidence is what these steps yield in this order: score every   *)
(* chunk, keep scores >= 0.28, sort by descending score, take 10, keep     *)
(* scores >= 0.35, keep chunks whose text holds a keyword, take 3; so it   *)
(* has at most 3 items in non-increasing score order, each with score      *)
(* >= 0.35 and a keyword in its text.                                      *)
C16_EvidenceSteps ==
    fnOut # <<>> =>
        LET top == fnOut[1]
        IN  /\ top = ClaimedEvidence(fnIn.rows, fnIn.question)
            /\ Len(top) <= 3
            /\ \A k \in 1..Len(top) :
                  /\ top[k].score >= 35
                  /\ \E m \in 1..Len(Keywords(fnIn.question)) :
                        Includes(ToLower(top[k].content), Keywords(fnIn.question)[m])
                  /\ k > 1 => top[k - 1].score >= top[k].score

\* three items, two of them with the same score, out of more than ten rows and more
\* than three hits
C16_Witness ==
    /\ fnOut # <<>>
    /\ Len(fnOut[1]) = 3
    /\ fnOut[1][1].score > fnOut[1][2].score
    /\ fnOut[1][2].score = fnOut[1][3].score
    /\ Len(fnIn.rows) > TopK
    /\ Len(StrictHits(fnIn.rows, ModelVector(fnIn.question), fnIn.question)) > TopHits

\* the 3 highest-scoring chunks among all stored chunks with score >= 0.35 and a
\* keyword in their text
QualifyingTop3(rows, question) ==
    LET keywords == Keywords(question)
        scored == [i \in 1..Len(rows) |-> Scored(rows[i], ModelVector(question), keywords)]
        qualifying == SelectSeq(SortDesc(scored),
                                LAMBDA x : x.score >= GoodScore /\ SomeIn(keywords, x.content))
    IN  Take(qualifying, 3)

(* C27: cutting the candidates to the first 10 before the stricter gates    *)
(* changes nothing: the evidence is the 3 highest-scoring chunks among all *)
(* stored chunks with score >= 0.35 and a keyword in their text, so it is  *)
(* empty (the not-found response) only when no stored chunk has both.      *)
C27_TruncationHarmless ==
    fnOut # <<>> =>
        /\ fnOut[1] = QualifyingTop3(fnIn.rows, fnIn.question)
        /\ fnOut[1] = <<>> =>
              \A i \in 1..Len(fnIn.rows) :
                  LET x == Scored(fnIn.rows[i], ModelVector(fnIn.question), Keywords(fnIn.question))
                  IN  ~(x.score >= GoodScore /\ SomeIn(Keywords(fnIn.question), x.content))

-----------------------------------------------------------------------------
(* Properties of POST /ask and answer. *)

\* the request was answered
Answered(a) == ask[a].pc = "done"
Reply(a) == ask[a].res[1]
\* answer reached the evidence selection
Selected(a) == ask[a].calls.scan > 0
EvidenceOf(a) == ClaimedEvidence(dbDocs, ask[a].q)
\* generateWithLocalLLM ended in failure
GenerationFailed(a) == ask[a].gen # <<>> /\ ask[a].gen[1].kind = "error"

(* C11: whenever the evidence of a question is empty, answer returns the    *)
(* fixed not-found text with the sources line (none), neither the          *)
(* generation backend nor the summarizer is called, and POST /ask answers  *)
(* 200 with that text.                                                     *)
C11_FailsClosed ==
    \A a \in Asks :
        (Selected(a) /\ EvidenceOf(a) = <<>>) =>
            /\ ask[a].res = <<[status |-> 200,
                              answer |-> [text |-> <<"No answer found in Tuppu.fi content.">>,
                                          links |-> <<NoneLine>>]]>>
            /\ ask[a].calls.gen = 0
            /\ ask[a].calls.sum = 0

\* the store holds chunks above both thresholds, none of them among the evidence
C11_Witness ==
    \E a \in Asks :
        /\ Selected(a)
        /\ EvidenceOf(a) = <<>>
        /\ Keywords(ask[a].q) # <<>>
        /\ Len(dbDocs) > TopK
        /\ Answered(a)

(* C12: for a question with evidence, a failure of the generation call is   *)
(* never surfaced as an error: POST /ask responds 200 with a non-empty     *)
(* answer and a non-empty sources list.                                    *)
C12_GenerationFailureNotSurfaced ==
    \A a \in Asks :
        (Answered(a) /\ GenerationFailed(a)) =>
            /\ Reply(a).status = 200
            /\ Reply(a).answer.links # <<>>
            /\ \A k \in 1..Len(Reply(a).answer.links) : Reply(a).answer.links[k].kind = "link"

(* C13: every answer built from a non-empty evidence set ends with a        *)
(* Sources listing with exactly one entry (title and url) per evidence     *)
(* item, in the order of the evidence, the same listing whether the prose  *)
(* came from the generation backend or from the summarizer.                *)
C13_SourcesListing ==
    /\ \A a \in Asks :
          (Answered(a) /\ Reply(a).status = 200) =>
              LET evidence == EvidenceOf(a)
              IN  evidence # <<>> =>
                      /\ Len(Reply(a).answer.links) = Len(evidence)
                      /\ \A k \in 1..Len(evidence) :
                            Reply(a).answer.links[k] =
                                [kind |-> "link", title |-> evidence[k].title, url |-> evidence[k].url]
    /\ \A a, b \in Asks :
          (/\ Answered(a) /\ Reply(a).status = 200
           /\ Answered(b) /\ Reply(b).status = 200
           /\ ask[a].q = ask[b].q) =>
              Reply(a).answer.links = Reply(b).answer.links

\* the same question answered once by the backend and once by the summarizer
C13_Witness ==
    \E a, b \in Asks :
        /\ Answered(a) /\ Reply(a).status = 200 /\ ask[a].path = "llm"
        /\ Answered(b) /\ Reply(b).status = 200 /\ ask[b].path = "fallback"
        /\ ask[a].q = ask[b].q
        /\ Len(Reply(a).answer.links) = 3
        /\ Reply(b).answer.text # Reply(a).answer.text

(* C14: when the deadline passes before the response is complete the        *)
(* request is aborted, generateWithLocalLLM ends in failure and answer     *)
(* takes the summarizer path; generateWithLocalLLM waits only while the    *)
(* timer is set, and the timer is cancelled whenever it has ended.         *)
C14_TimeoutAborts ==
    \A a \in Asks :
        /\ ask[a].deadline =>
              /\ GenerationFailed(a)
              /\ ask[a].path = "fallback"
              /\ ask[a].calls.sum = 1
        /\ ask[a].gen # <<>> => ask[a].timer = "cleared"
        /\ ask[a].pc \in {"fetch", "body", "errBody"} => ask[a].timer = "armed"
        /\ ask[a].calls.gen = 0 => ask[a].timer = "none"

\* the deadline passed while the body of a success response was being read
C14_Witness ==
    \E a \in Asks :
        /\ ask[a].deadline
        /\ ask[a].r # <<>>
        /\ ask[a].r[1].ok
        /\ Answered(a)
        /\ Reply(a).status = 200

\* q is missing or empty after trimming
MissingQ(a) == ask[a].body[1].t # "string" \/ Blank(ask[a].body[1].v)

(* C18: POST /ask responds 400 when q is missing or empty after trimming,   *)
(* without embedding, store scan or generation; otherwise 200 with the     *)
(* answer when answer returns and 500 with the error message when answer   *)
(* throws; each request gets exactly one response.                         *)
C18_AskStatus ==
    \A a \in Asks :
        /\ Len(ask[a].res) = IF Answered(a) THEN 1 ELSE 0
        /\ (ask[a].body # <<>> /\ MissingQ(a)) =>
              /\ ask[a].res = <<[status |-> 400, error |-> "Missing q"]>>
              /\ ask[a].calls = [embed |-> 0, scan |-> 0, gen |-> 0, sum |-> 0]
        /\ (Answered(a) /\ ~MissingQ(a)) =>
              /\ ask[a].out # <<>>
              /\ ask[a].out[1].kind = "returned" =>
                    Reply(a) = [status |-> 200, answer |-> ask[a].out[1].value]
              /\ ask[a].out[1].kind = "threw" =>
                    Reply(a) = [status |-> 500, error |-> ask[a].out[1].error]

\* a blank q was refused and another request failed in answer
C18_Witness ==
    \E a, b \in Asks :
        /\ Answered(a) /\ ask[a].body[1].t = "string" /\ ask[a].body[1].v # <<>> /\ MissingQ(a)
        /\ Answered(b) /\ Reply(b).status = 500

\* the question of the request has no token of length >= 4
NoKeyword(a) == ask[a].body # <<>> /\ ~MissingQ(a) /\ Keywords(ask[a].q) = <<>>

(* C29: a question without a token of length >= 4 gets the not-found        *)
(* response whatever the store holds and however high the similarities     *)
(* are, and its request never reaches the generation backend.              *)
C29_NoKeywordNotFound ==
    \A a \in Asks :
        NoKeyword(a) =>
            /\ ask[a].calls.gen = 0
            /\ ask[a].calls.sum = 0
            /\ ask[a].top = IdleAsk.top
            /\ Selected(a) =>
                  /\ ask[a].path = "notfound"
                  /\ ask[a].res = <<[status |-> 200, answer |-> NotFound]>>

\* such a question answered over a store whose first chunk scores 0.8
C29_Witness ==
    \E a \in Asks :
        /\ NoKeyword(a)
        /\ Answered(a)
        /\ Selected(a)
        /\ dbDocs # <<>>
        /\ LET hits == searchVectors(dbDocs, ModelVector(ask[a].q), ask[a].q, TopK)
           IN  hits # <<>> /\ hits[1].score >= 80

-----------------------------------------------------------------------------
(* Properties of the pipeline as a whole. *)

\* a generateWithLocalLLM call of the request ended in failure
LlmFailed(a) == \E k \in 1..Len(ask[a].gen) : ask[a].gen[k].kind = "error"

(* C22: whenever a call to the LLM backend fails, the request falls back to *)
(* the local summarizer instead of failing: it is answered with a result,  *)
(* not an error, after a summarizer call; here on the paths                *)
(* POST /generate-article and POST /generate-and-post.                     *)
C22_LlmFailureFallsBack ==
    \A a \in Asks :
        (Answered(a) /\ LlmFailed(a)) =>
            /\ ask[a].calls.sum >= 1
            /\ Reply(a).status # 500

\* POST /ask called answer for the request
AnswerCalled(a) == ask[a].body # <<>> /\ ~MissingQ(a)

(* C23: no step is retried: one answer call makes exactly one query         *)
(* embedding, at most one request to the generation backend and at most    *)
(* one summarizer call, the latter only after the generation request has   *)
(* failed; one indexAll run calls embed at most once per (document, chunk  *)
(* ordinal).                                                               *)
C23_NoRetry ==
    /\ \A a \in Asks :
          /\ ask[a].calls.embed = IF AnswerCalled(a) THEN 1 ELSE 0
          /\ ask[a].calls.gen <= 1
          /\ ask[a].calls.sum <= 1
          /\ ask[a].calls.sum = 1 => ask[a].calls.gen = 1 /\ GenerationFailed(a)
    /\ \A r \in Runs :
          \A pair \in BagToSet(embedLog[r]) : CopiesIn(pair, embedLog[r]) = 1

\* a request answered by the summarizer after the backend had answered 503
C23_Witness ==
    \E a \in Asks :
        /\ Answered(a)
        /\ Reply(a).status = 200
        /\ ask[a].calls = [embed |-> 1, scan |-> 1, gen |-> 1, sum |-> 1]
        /\ ask[a].r # <<>>
        /\ ~ask[a].r[1].ok

====
